---------------------------- MODULE Spec2Model ----------------------------
(***************************************************************************)
(* A model of the sonos-challenge audio streaming service:                 *)
(*   - the binary message codec   (src/src/audio/message.rs)               *)
(*   - the framed broadcast server and the frame reader                    *)
(*                                (src/src/network/tcp.rs)                 *)
(*   - the server's pacer         (src/src/server/main.rs)                 *)
(*                                                                         *)
(* Three specifications share the variables:                               *)
(*   SpecCodec  applies serialize / deserialize to inputs drawn in Init,   *)
(*   Spec       runs the accept thread against a main thread that calls    *)
(*              the TcpServer API in any order, with clients that connect  *)
(*              and call TcpClient::receive,                               *)
(*   SpecPacer  runs the accept thread against Application::play_wav_file. *)
(***************************************************************************)
EXTENDS Integers, Sequences, FiniteSets, TLC

(***************************************************************************)
(* Wide naturals.  TLC's integers are 32-bit signed, the program's lengths *)
(* are u32 and (64-bit) usize.  A wide natural is [hi, lo] of value        *)
(* hi * 2^16 + lo with lo < 2^16; every operator below is exact for the    *)
(* values the model builds (below 2^34), so no usize operation wraps.      *)
(***************************************************************************)
Base == 2^16

W(h, l) == [hi |-> h, lo |-> l]

WNat(n) == W(n \div Base, n % Base)

\* the integer a wide natural below 2^31 stands for
WInt(a) == a.hi * Base + a.lo

WZero == W(0, 0)

WAdd(a, b) ==
    LET s == a.lo + b.lo
    IN  W(a.hi + b.hi + (s \div Base), s % Base)

\* a - b for b <= a
WSub(a, b) ==
    IF a.lo >= b.lo THEN W(a.hi - b.hi, a.lo - b.lo)
    ELSE W(a.hi - b.hi - 1, a.lo + Base - b.lo)

\* a * k for a small factor k
WMul(a, k) ==
    LET p == a.lo * k
    IN  W(a.hi * k + (p \div Base), p % Base)

WHalf(a) == W(a.hi \div 2, (a.lo + (a.hi % 2) * Base) \div 2)

WLt(a, b) == a.hi < b.hi \/ (a.hi = b.hi /\ a.lo < b.lo)

WGt(a, b) == WLt(b, a)

WLe(a, b) == ~WLt(b, a)

WOdd(a) == a.lo % 2 = 1

WMin(a, b) == IF WLt(a, b) THEN a ELSE b

\* u32::MAX
U32_MAX == W(Base - 1, Base - 1)

\* `x as u32` for a usize x: the low 32 bits
AsU32(a) == W(a.hi % Base, a.lo)

\* u32::to_le_bytes / u32::from_le_bytes
U32ToLe(a) == << a.lo % 256, a.lo \div 256, a.hi % 256, a.hi \div 256 >>

U32FromLe(b) == W(b[3] + 256 * b[4], b[1] + 256 * b[2])

\* u16::to_le_bytes / u16::from_le_bytes
U16ToLe(n) == << n % 256, n \div 256 >>

U16FromLe(b) == b[1] + 256 * b[2]

\* i16::to_le_bytes / i16::from_le_bytes (two's complement)
I16ToLe(s) == U16ToLe(IF s < 0 THEN s + Base ELSE s)

\* a decoder that forgets the sign of a sample
I16FromLe_Unsigned(b) == U16FromLe(b)

I16FromLe(b) ==
    LET u == U16FromLe(b)
    IN  IF u >= Base \div 2 THEN u - Base ELSE u

(***************************************************************************)
(* Byte strings and sample vectors.  A byte string (&[u8], Vec<u8>) is     *)
(* [head, pad, fill]: the bytes of head, followed by pad more bytes (a     *)
(* wide natural) that repeat the two bytes of fill.  A sample vector       *)
(* (Vec<i16>) is [head, pad, fill]: the samples of head followed by pad    *)
(* copies of the sample fill.  The padded part stands for the lengths      *)
(* near 2^31 and 2^32 that cannot be written out.  A string with pad = 0   *)
(* has fill <<0, 0>> (a vector: fill 0), so equal strings are equal        *)
(* records.                                                                *)
(***************************************************************************)
Bytes(h) == [head |-> h, pad |-> WZero, fill |-> << 0, 0 >>]

PaddedBytes(h, p, f) ==
    IF p = WZero THEN Bytes(h) ELSE [head |-> h, pad |-> p, fill |-> f]

EmptyBytes == Bytes(<< >>)

BLen(b) == WAdd(WNat(Len(b.head)), b.pad)

BIsEmpty(b) == BLen(b) = WZero

\* the byte at (1-based) index i <= BLen(b), for small i
ByteAt(b, i) ==
    IF i <= Len(b.head) THEN b.head[i]
    ELSE b.fill[((i - Len(b.head) - 1) % 2) + 1]

\* the first n bytes of b written out, for small n <= BLen(b)
BTake(b, n) == [i \in 1..n |-> ByteAt(b, i)]

\* b without its first n bytes, for small n <= BLen(b)
BDrop(b, n) ==
    IF n <= Len(b.head) THEN PaddedBytes(SubSeq(b.head, n + 1, Len(b.head)), b.pad, b.fill)
    ELSE LET k == n - Len(b.head)
         IN  PaddedBytes(<< >>, WSub(b.pad, WNat(k)),
                         IF k % 2 = 0 THEN b.fill ELSE << b.fill[2], b.fill[1] >>)

\* Vec::extend_from_slice: buf followed by b (buf is written out)
BAppend(buf, b) == PaddedBytes(buf.head \o b.head, b.pad, b.fill)

\* the first n bytes of b, n a wide natural <= BLen(b)
BPrefix(b, n) ==
    IF WLe(n, WNat(Len(b.head))) THEN Bytes(SubSeq(b.head, 1, n.lo))
    ELSE PaddedBytes(b.head, WSub(n, WNat(Len(b.head))), b.fill)

SampleVec(h) == [head |-> h, pad |-> WZero, fill |-> 0]

PaddedSamples(h, p, f) ==
    IF p = WZero THEN SampleVec(h) ELSE [head |-> h, pad |-> p, fill |-> f]

SLen(v) == WAdd(WNat(Len(v.head)), v.pad)

\* the first n samples of v, n a wide natural <= SLen(v)
VTake(v, n) ==
    IF WLe(n, WNat(Len(v.head))) THEN SampleVec(SubSeq(v.head, 1, n.lo))
    ELSE PaddedSamples(v.head, WSub(n, WNat(Len(v.head))), v.fill)

\* v without its first n samples, n a wide natural <= SLen(v)
VDrop(v, n) ==
    IF WLe(n, WNat(Len(v.head)))
    THEN PaddedSamples(SubSeq(v.head, n.lo + 1, Len(v.head)), v.pad, v.fill)
    ELSE PaddedSamples(<< >>, WSub(SLen(v), n), v.fill)

\* Vec::push of the samples of b onto a, in order; where a is padded, the
\* samples of b all have the value a is padded with
VAppend(a, b) ==
    IF SLen(a) = WZero THEN b
    ELSE IF a.pad = WZero THEN PaddedSamples(a.head \o b.head, b.pad, b.fill)
    ELSE PaddedSamples(a.head, WAdd(a.pad, SLen(b)), a.fill)

RECURSIVE FlatLe(_)
\* samples.iter().flat_map(|s| s.to_le_bytes()) over written-out samples
FlatLe(h) ==
    IF h = << >> THEN << >> ELSE I16ToLe(Head(h)) \o FlatLe(Tail(h))

\* the bytes of a sample vector, little-endian
SampleBytes(v) == PaddedBytes(FlatLe(v.head), WMul(v.pad, 2), I16ToLe(v.fill))

\* bytes.chunks_exact(2).map(i16::from_le_bytes) over a byte string of even
\* length: the written-out part is cut into pairs (one byte is taken from the
\* padding when the written-out part is odd), the padding is halved
ChunkSamples(b) ==
    LET odd  == Len(b.head) % 2 = 1 /\ b.pad # WZero
        n    == IF odd THEN Len(b.head) + 1 ELSE Len(b.head)
        flat == BTake(b, n)
        rest == BDrop(b, n)
    IN  PaddedSamples([i \in 1..(n \div 2) |-> I16FromLe(<< flat[2 * i - 1], flat[2 * i] >>)],
                      WHalf(rest.pad), I16FromLe(rest.fill))

(***************************************************************************)
(* The message codec: audio/message.rs.                                    *)
(***************************************************************************)
SPEC_MSG_LEN == 1 + 2 + 4 + 2 + 1

SAMPLES_HEADER_LEN == 1 + 4

SAMPLE_SIZE == 2

\* AudioMessageType as u8
TagSpec == 1

TagSamples == 2

\* the sample format subtag written and read for SampleFormat::Float / Int
TagFloat == 1

TagInt == 2

\* AudioMessage::Spec(WavSpec) and AudioMessage::Samples(Vec<i16>)
SpecMsg(ch, rate, bits, fmt) ==
    [type |-> "Spec", channels |-> ch, sample_rate |-> rate,
     bits_per_sample |-> bits, sample_format |-> fmt]

SamplesMsg(v) == [type |-> "Samples", samples |-> v]

\* a guard that compares with u32::MAX instead of u32::MAX / 2
SamplesTooLong_NoHalf(n) == WGt(n, U32_MAX)

\* the guard of serialize: samples.len() > (u32::MAX / 2) as usize
SamplesTooLong(n) == WGt(n, WHalf(U32_MAX))

\* (samples.len() as u32).to_le_bytes()
CountField(n) == U32ToLe(AsU32(n))

\* match spec.sample_format { Float => 1, Int => 2 }
FormatTag(fmt) == IF fmt = "Float" THEN TagFloat ELSE TagInt

\* AudioMessage::serialize(&self, buf): the result and the buffer afterwards
serialize(m, buf) ==
    IF m.type = "Spec"
    THEN [ok |-> TRUE,
          buf |-> BAppend(buf, Bytes(<< TagSpec >> \o U16ToLe(m.channels)
                                      \o U32ToLe(m.sample_rate)
                                      \o U16ToLe(m.bits_per_sample)
                                      \o << FormatTag(m.sample_format) >>))]
    ELSE IF SamplesTooLong(SLen(m.samples))
         THEN [ok |-> FALSE, buf |-> buf,
               err |-> [kind |-> "TooLong", len |-> SLen(m.samples)]]
         ELSE [ok |-> TRUE,
               buf |-> BAppend(BAppend(buf, Bytes(<< TagSamples >>
                                                   \o CountField(SLen(m.samples)))),
                               SampleBytes(m.samples))]

DataLengthMismatch(cur, exp) ==
    [ok |-> FALSE,
     err |-> [kind |-> "DataLengthMismatch", current_length |-> cur,
              expected_length |-> exp]]

\* a length test that only rejects Spec frames that are too short
SpecLengthWrong_OnlyShort(n) == WLt(n, WNat(SPEC_MSG_LEN))

\* the Spec arm's length test: bytes.len() != SPEC_MSG_LEN
SpecLengthWrong(n) == n # WNat(SPEC_MSG_LEN)

\* the Samples arm's first length test: bytes.len() < SAMPLES_HEADER_LEN
SamplesHeaderShort(n) == WLt(n, WNat(SAMPLES_HEADER_LEN))

\* SAMPLES_HEADER_LEN + (length as usize) * SAMPLE_SIZE
ExpectedSamplesLength(length) == WAdd(WNat(SAMPLES_HEADER_LEN), WMul(length, SAMPLE_SIZE))

\* a Spec arm that takes every unknown sample format byte for Int
DeserializeSpec_DefaultInt(bytes) ==
    LET b == BTake(bytes, SPEC_MSG_LEN)
    IN  [ok |-> TRUE,
         msg |-> SpecMsg(U16FromLe(SubSeq(b, 2, 3)), U32FromLe(SubSeq(b, 4, 7)),
                         U16FromLe(SubSeq(b, 8, 9)),
                         IF b[10] = TagFloat THEN "Float" ELSE "Int")]

\* the Spec arm of deserialize, on exactly SPEC_MSG_LEN bytes
DeserializeSpec(bytes) ==
    LET b == BTake(bytes, SPEC_MSG_LEN)
    IN  IF b[10] \notin {TagFloat, TagInt}
        THEN [ok |-> FALSE, err |-> [kind |-> "UnknownWaveSpecSampleFormat"]]
        ELSE [ok |-> TRUE,
              msg |-> SpecMsg(U16FromLe(SubSeq(b, 2, 3)), U32FromLe(SubSeq(b, 4, 7)),
                              U16FromLe(SubSeq(b, 8, 9)),
                              IF b[10] = TagFloat THEN "Float" ELSE "Int")]

\* the Samples arm of deserialize
DeserializeSamples(bytes) ==
    IF SamplesHeaderShort(BLen(bytes))
    THEN DataLengthMismatch(BLen(bytes), WNat(5))
    ELSE LET length   == U32FromLe(SubSeq(BTake(bytes, 5), 2, 5))
             expected == ExpectedSamplesLength(length)
         IN  IF BLen(bytes) # expected
             THEN DataLengthMismatch(BLen(bytes), expected)
             ELSE [ok |-> TRUE,
                   msg |-> SamplesMsg(ChunkSamples(BDrop(bytes, SAMPLES_HEADER_LEN)))]

\* AudioMessage::deserialize(bytes)
deserialize(bytes) ==
    IF BIsEmpty(bytes)
    THEN DataLengthMismatch(WZero, WNat(1))
    ELSE LET tag == ByteAt(bytes, 1)
         IN  IF tag = TagSpec
             THEN IF SpecLengthWrong(BLen(bytes))
                  THEN DataLengthMismatch(BLen(bytes), WNat(SPEC_MSG_LEN))
                  ELSE DeserializeSpec(bytes)
             ELSE IF tag = TagSamples
                  THEN DeserializeSamples(bytes)
                  ELSE [ok |-> FALSE,
                        err |-> [kind |-> "IncorrectAudioMessageType", tag |-> tag]]

(***************************************************************************)
(* The inputs of SpecCodec.                                                *)
(***************************************************************************)
\* the longest written-out part of a sample vector
MaxHeadSamples == 2

\* the longest byte string drawn byte by byte
MaxRawBytes == 3

SeqsUpTo(S, n) == UNION {[1..k -> S] : k \in 0..n}

I16Vals == {-32768, -1, 0, 1, 32767}

ByteVals == {0, 1, 2, 99, 255}

\* sample counts at the limits: 2^31 - 1, 2^31, 2^32 - 1
BigCounts == {WHalf(U32_MAX), WAdd(WHalf(U32_MAX), WNat(1)), U32_MAX}

\* sample vectors: written out, or padded to a count at the limits
SampleVecInputs ==
    {SampleVec(h) : h \in SeqsUpTo(I16Vals, MaxHeadSamples)}
    \cup {PaddedSamples(h, WSub(n, WNat(Len(h))), f) :
              h \in SeqsUpTo(I16Vals, MaxHeadSamples), n \in BigCounts,
              f \in {-32768, 1}}

SpecMsgInputs ==
    {SpecMsg(ch, rate, bits, fmt) :
        ch \in {1, 2, Base - 1}, rate \in {WZero, WNat(44100), WNat(48000), U32_MAX},
        bits \in {16, 32}, fmt \in {"Float", "Int"}}

MsgInputs == SpecMsgInputs \cup {SamplesMsg(v) : v \in SampleVecInputs}

\* byte strings that begin like a Spec message: 9, 10 and 11 bytes, every
\* kind of sample format byte
SpecLikeBytes ==
    LET good == {serialize(m, EmptyBytes).buf : m \in SpecMsgInputs}
    IN  UNION {{Bytes(SubSeq(b.head, 1, 9)),
                Bytes(b.head \o << 0 >>)}
               \cup {Bytes(SubSeq(b.head, 1, 9) \o << f >>) : f \in ByteVals}
               : b \in good}

\* byte strings that begin like a Samples message: every declared count with
\* every body, the body of even or of odd length
SamplesLikeBytes ==
    {BAppend(Bytes(<< TagSamples >> \o U32ToLe(c)),
             BAppend(Bytes(x), SampleBytes(v))) :
        c \in {WZero, WNat(1), WNat(2)} \cup BigCounts,
        x \in {<< >>, << 255 >>}, v \in SampleVecInputs}

ByteInputs ==
    {Bytes(h) : h \in SeqsUpTo(ByteVals, MaxRawBytes)}
    \cup SpecLikeBytes \cup SamplesLikeBytes

NoResult == [ok |-> FALSE, err |-> [kind |-> "none"]]

NoInput == [kind |-> "none"]

(***************************************************************************)
(* State.                                                                  *)
(***************************************************************************)
VARIABLES
    \* SpecCodec: the input, the results of serialize and of deserialize, and
    \* which of the two has been applied
    cin, cser, cdes, cpc,
    \* TcpServer: the peer set (VecDeque<TcpStream>, front first), the greeting
    \* slot, the shutdown flag, and the owner of each of the two mutexes
    streams, new_client_message, shutdown, gLock, sLock,
    \* the accept thread: its position and the stream it has accepted
    apc, astream,
    \* the main thread: its position; of the broadcast in progress the data,
    \* the drained `clients`, `surviving_streams`, the place of the call; and
    \* the result of the broadcast that has returned
    mpc, bdata, bclients, bsurv, bcont, bres,
    \* the locals of Application::play_wav_file
    play,
    \* the network: the listener's queue of connections not yet accepted; per
    \* connection the frames written to it, whether the server has dropped
    \* it, the outcomes of the client's receive calls and the client's state
    backlog, sent, sclosed, rcv, cst,
    \* history: the data of the accepted broadcast calls in call order, the
    \* argument of the last set_new_client_message that returned, per
    \* connection that argument at connect and at
    \* accept time; of the broadcast in progress the peers drained, the peers
    \* written to successfully and the peers inserted meanwhile
    bhist, lastSet, gAt, bdrained, bok, binserted,
    \* the client application: the stop flag the Ctrl-C handler sets, the
    \* locals of the loop that runs (write_audio_to_file or play_audio), the
    \* sinks the loop has created, and the history of its receive calls
    stop, loop, sinks, inbox,
    \* SpeakerOutput: the samples in the ring buffer (oldest first), the call
    \* of play_samples in progress, and the last run of the device callback
    ring, producer, callback

codecVars == << cin, cser, cdes, cpc >>

serverVars == << streams, new_client_message, shutdown, gLock, sLock >>

acceptVars == << apc, astream >>

mainVars == << mpc, bdata, bclients, bsurv, bcont, bres, play >>

netVars == << backlog, sent, sclosed, rcv, cst >>

histVars == << bhist, lastSet, gAt, bdrained, bok, binserted >>

clientVars == << stop, loop, sinks, inbox, ring, producer, callback >>

vars == << codecVars, serverVars, acceptVars, mainVars, netVars, histVars,
           clientVars >>

\* the codec is not exercised
CodecIdle ==
    /\ cin = NoInput
    /\ cser = NoResult
    /\ cdes = NoResult
    /\ cpc = "idle"

\* loop when no client loop runs
NoLoop == [mode |-> "none"]

\* producer when no call of play_samples is in progress
NoPush == [pc |-> "idle"]

\* callback before the device has called it
NoCallback == [ran |-> FALSE]

\* the client application is not exercised
ClientIdle ==
    /\ stop = FALSE
    /\ loop = NoLoop
    /\ sinks = << >>
    /\ inbox = << >>
    /\ ring = << >>
    /\ producer = NoPush
    /\ callback = NoCallback

(***************************************************************************)
(* The broadcast server and the frame reader: network/tcp.rs.              *)
(***************************************************************************)
\* the connections that may be made
NClients == 2

\* the broadcast calls the main thread may make that pass the length check
MaxBroadcasts == 2

Clients == 1..NClients

\* no stream (the accept thread's `stream` outside the Ok arm)
NoStream == 0

\* bcont when no call of broadcast is in progress
NoCall == "none"

\* play when play_wav_file is not running
NoPlay == [running |-> FALSE]

\* lastSet before any set_new_client_message has returned
Unset == [unset |-> TRUE]

\* TcpClient::MAX_FRAME_SIZE
MAX_FRAME_SIZE == WNat(16 * 1024 * 1024)

SeqSet(q) == {q[i] : i \in 1..Len(q)}

NoDup(q) == Cardinality(SeqSet(q)) = Len(q)

\* the state of a server just bound, with no connection made
InitServer ==
    /\ streams = << >>
    /\ new_client_message = EmptyBytes
    /\ shutdown = FALSE
    /\ gLock = "free"
    /\ sLock = "free"
    /\ apc = "top"
    /\ astream = NoStream
    /\ bdata = EmptyBytes
    /\ bclients = << >>
    /\ bsurv = << >>
    /\ bcont = NoCall
    /\ bres = "none"
    /\ backlog = << >>
    /\ sent = [c \in Clients |-> << >>]
    /\ sclosed = [c \in Clients |-> FALSE]
    /\ rcv = [c \in Clients |-> << >>]
    /\ cst = [c \in Clients |-> "init"]
    /\ bhist = << >>
    /\ lastSet = Unset
    /\ gAt = [c \in Clients |-> [conn |-> Unset, acc |-> Unset]]
    /\ bdrained = {}
    /\ bok = {}
    /\ binserted = {}

nonCodecVars == << serverVars, acceptVars, mainVars, netVars, histVars,
                  clientVars >>

\* a frame as send_frame writes it: the 4-byte prefix (data.len() as u32) and
\* the data; kind and seq record which call wrote it, whole that both
\* write_all calls succeeded
Frame(kind, seq, data) ==
    [kind |-> kind, seq |-> seq, len |-> AsU32(BLen(data)), data |-> data,
     whole |-> TRUE]

\* what a send_frame that failed leaves on the stream: some of the frame's
\* bytes, short of all of them
CutFrame(kind, seq, data) == [Frame(kind, seq, data) EXCEPT !.whole = FALSE]

\* send_frame(stream, data, _) returning true: both writes succeeded
SendOk(c, kind, seq, data) ==
    /\ sent' = [sent EXCEPT ![c] = Append(@, Frame(kind, seq, data))]
    /\ UNCHANGED sclosed

\* send_frame returning false: one of the two write_all calls failed (the
\* peer is gone, or another I/O error); the caller drops the stream, which
\* closes it after whatever part of the frame was written
SendFailed(c, kind, seq, data) ==
    /\ sclosed' = [sclosed EXCEPT ![c] = TRUE]
    /\ sent' = [sent EXCEPT ![c] = Append(@, CutFrame(kind, seq, data))]

(***************************************************************************)
(* The accept thread: the loop of TcpServer::bind.                         *)
(***************************************************************************)
\* listener.accept() returns WouldBlock: sleep 50 ms and continue
AcceptWouldBlock ==
    /\ apc = "top"
    /\ ~shutdown
    /\ backlog = << >>
    /\ UNCHANGED vars

\* listener.accept() returns another error: continue
AcceptError ==
    /\ apc = "top"
    /\ ~shutdown
    /\ UNCHANGED vars

\* an accept thread that never sends the greeting
GreetingNeeded_Never(data) == FALSE

\* an accept thread that frames the slot for every peer, empty or not
GreetingNeeded_Always(data) == TRUE

\* whether the greeting is sent: !data.is_empty()
GreetingNeeded(data) == ~BIsEmpty(data)

\* an accept thread that drops the guard as soon as the greeting is written
GreetingGuardDroppedAfterGreeting == FALSE

\* the guard `data` lives to the end of the Ok arm: the greeting mutex is
\* still held while the peer set is locked
GreetingGuardHeldToEndOfArm == TRUE

\* the owner of the greeting mutex after the greeting has been handled
GreetingOwnerAfterGreeting ==
    IF GreetingGuardHeldToEndOfArm THEN "accept" ELSE "free"

\* listener.accept() returns a connection; the thread locks the greeting
\* slot (`data` is the guard) and, if !data.is_empty(), sends the greeting;
\* if send_frame fails it drops the stream and continues
AcceptOk ==
    /\ apc = "top"
    /\ ~shutdown
    /\ backlog # << >>
    /\ gLock = "free"
    /\ backlog' = Tail(backlog)
    /\ gAt' = [gAt EXCEPT ![Head(backlog)].acc = new_client_message]
    /\ IF GreetingNeeded(new_client_message)
       THEN \/ /\ SendOk(Head(backlog), "greeting", 0, new_client_message)
               /\ apc' = "push"
               /\ gLock' = GreetingOwnerAfterGreeting
               /\ astream' = Head(backlog)
            \/ /\ SendFailed(Head(backlog), "greeting", 0, new_client_message)
               /\ UNCHANGED << apc, gLock, astream >>
       ELSE /\ apc' = "push"
            /\ gLock' = GreetingOwnerAfterGreeting
            /\ astream' = Head(backlog)
            /\ UNCHANGED << sent, sclosed >>
    /\ UNCHANGED << streams, new_client_message, shutdown, sLock, mainVars,
                    rcv, cst, bhist, lastSet, bdrained, bok, binserted,
                    codecVars, clientVars >>

\* whether a broadcast has drained the peer set and not yet returned
BroadcastInProgress == mpc \in {"b_send", "b_reinsert"}

\* streams_for_thread.lock(); streams.push_front(stream); both guards are
\* dropped at the end of the arm
AcceptPush ==
    /\ apc = "push"
    /\ sLock = "free"
    /\ streams' = << astream >> \o streams
    /\ gLock' = IF gLock = "accept" THEN "free" ELSE gLock
    /\ astream' = NoStream
    /\ apc' = "top"
    /\ binserted' = IF BroadcastInProgress THEN binserted \cup {astream} ELSE binserted
    /\ UNCHANGED << new_client_message, shutdown, sLock, mainVars, netVars,
                    bhist, lastSet, gAt, bdrained, bok, codecVars, clientVars >>

AcceptThread ==
    \/ AcceptOk
    \/ AcceptWouldBlock
    \/ AcceptError
    \/ AcceptPush

(***************************************************************************)
(* TcpServer's operations, called by the main thread.                      *)
(***************************************************************************)
\* a set that stores the first byte of the data only
SlotAfterSet_OneByte(message, data) == BPrefix(data, WNat(1))

\* message.clear(); message.extend_from_slice(data)
SlotAfterSet(message, data) == BAppend(EmptyBytes, data)

\* set_new_client_message(data), from the lock to the return
SetNewClientMessage(data) ==
    /\ gLock = "free"
    /\ new_client_message' = SlotAfterSet(new_client_message, data)
    /\ lastSet' = data
    /\ UNCHANGED << streams, shutdown, gLock, sLock, acceptVars, netVars,
                    bhist, gAt, bdrained, bok, binserted, codecVars, clientVars >>

\* a length check that also rejects a payload of exactly u32::MAX bytes
TooLongForU32_Inclusive(n) == WLe(U32_MAX, n)

\* the length check of broadcast: data.len() > u32::MAX as usize
TooLongForU32(n) == WGt(n, U32_MAX)

\* a drain that leaves the peers in the set
StreamsAfterDrain_Kept(current) == current

\* the peer set after streams.drain(..): empty
StreamsAfterDrain(current) == << >>

\* where broadcast is once `clients` holds q: in the loop, or past it
AfterSendTo(q) == IF q = << >> THEN "b_reinsert" ELSE "b_send"

\* broadcast(data), up to the end of the first critical section: the call
\* returns Err at once for data that is too long; otherwise it locks the
\* peer set, drains it into `clients` and unlocks it
BroadcastCall(data, site) ==
    /\ bdata' = data
    /\ bcont' = site
    /\ IF TooLongForU32(BLen(data))
       THEN /\ bres' = "Err"
            /\ mpc' = "b_ret"
            /\ UNCHANGED << bhist, streams, bclients, bdrained >>
       ELSE /\ sLock = "free"
            /\ bres' = "none"
            /\ bhist' = Append(bhist, data)
            /\ bclients' = streams
            /\ streams' = StreamsAfterDrain(streams)
            /\ bdrained' = SeqSet(streams)
            /\ mpc' = AfterSendTo(streams)
    /\ UNCHANGED << bsurv, new_client_message, shutdown, gLock, sLock,
                    acceptVars, netVars, lastSet, gAt, bok, binserted,
                    codecVars, clientVars >>

\* what becomes of a stream whose send_frame returned false: it is dropped
KeptAfterFailedSend(surviving, c) == surviving

\* one iteration of `for mut stream in clients`
BroadcastSend ==
    /\ mpc = "b_send"
    /\ bclients' = Tail(bclients)
    /\ mpc' = AfterSendTo(Tail(bclients))
    /\ \/ /\ SendOk(Head(bclients), "broadcast", Len(bhist), bdata)
          /\ bsurv' = Append(bsurv, Head(bclients))
          /\ bok' = bok \cup {Head(bclients)}
       \/ /\ SendFailed(Head(bclients), "broadcast", Len(bhist), bdata)
          /\ bsurv' = KeptAfterFailedSend(bsurv, Head(bclients))
          /\ UNCHANGED bok
    /\ UNCHANGED << serverVars, acceptVars, bdata, bcont, bres, backlog, rcv,
                    cst, bhist, lastSet, gAt, bdrained, binserted,
                    codecVars, clientVars, play >>

\* a reinsertion that overwrites the peer set with the survivors
StreamsAfterReinsert_Overwrite(current, surviving) == surviving

\* for stream in surviving_streams { streams.push_back(stream) }
StreamsAfterReinsert(current, surviving) == current \o surviving

\* the second lock of broadcast, the reinsertion and the return of Ok(())
BroadcastReinsert ==
    /\ mpc = "b_reinsert"
    /\ sLock = "free"
    /\ streams' = StreamsAfterReinsert(streams, bsurv)
    /\ bsurv' = << >>
    /\ bres' = "Ok"
    /\ mpc' = "b_ret"
    /\ UNCHANGED << new_client_message, shutdown, gLock, sLock, acceptVars,
                    bdata, bclients, bcont, netVars, histVars, codecVars, clientVars, play >>

\* the caller takes the result of broadcast: the call is over
BroadcastResultTaken ==
    /\ mpc = "b_ret"
    /\ bres' = "none"
    /\ bdata' = EmptyBytes
    /\ bcont' = NoCall
    /\ bdrained' = {}
    /\ bok' = {}
    /\ binserted' = {}
    /\ UNCHANGED << bclients, bsurv, serverVars, acceptVars, netVars, bhist,
                    lastSet, gAt, codecVars, clientVars >>

BroadcastSteps ==
    \/ BroadcastSend
    \/ BroadcastReinsert

(***************************************************************************)
(* The clients: TcpClient::connect and TcpClient::receive.                 *)
(***************************************************************************)
\* TcpClient::connect(address): the connection is queued at the listener.
\* Connections are numbered in the order in which they are made.
ClientConnect(c) ==
    /\ cst[c] = "init"
    /\ \A d \in 1..(c - 1) : cst[d] # "init"
    /\ cst' = [cst EXCEPT ![c] = "open"]
    /\ backlog' = Append(backlog, c)
    /\ gAt' = [gAt EXCEPT ![c].conn = lastSet]
    /\ UNCHANGED << sent, sclosed, rcv, serverVars, acceptVars, mainVars,
                    bhist, lastSet, bdrained, bok, binserted, codecVars, clientVars >>

\* a length test that also rejects a frame of exactly MAX_FRAME_SIZE bytes
FrameTooLarge_Inclusive(length) == ~WLt(length, MAX_FRAME_SIZE)

\* the length test of receive: length > Self::MAX_FRAME_SIZE
FrameTooLarge(length) == WGt(length, MAX_FRAME_SIZE)

\* the outcome of TcpClient::receive(buf) on a frame that has arrived: the
\* 4-byte prefix is decoded and checked, the buffer is resized to it and
\* exactly that many bytes are read
ReceiveFrame(f) ==
    IF FrameTooLarge(f.len)
    THEN [res |-> "FrameTooLarge", length |-> f.len, max |-> MAX_FRAME_SIZE]
    ELSE [res |-> "Ok", length |-> f.len, buf |-> BPrefix(f.data, f.len)]

\* the outcome on a connection the server has closed: read_exact fails with
\* UnexpectedEof
ServerDisconnected == [res |-> "ServerDisconnected"]

\* where the bytes of a frame whose send_frame failed may end: within the
\* prefix (the first write_all failed), or after the prefix and short of the
\* end of the data (the second failed); write_all of no bytes cannot fail
CutPoints(f) == IF BIsEmpty(f.data) THEN {"prefix"} ELSE {"prefix", "payload"}

\* the outcomes of TcpClient::receive(buf) on the bytes of a frame cut at
\* `cut` and followed by the close: read_exact of the prefix fails; or the
\* prefix is decoded and checked and read_exact of the body fails, unless
\* the prefix counts fewer bytes than the data has (the length wrapped in
\* the cast to u32) and that many bytes were written before the failure
ReceiveCut(f, cut) ==
    IF cut = "prefix" THEN {ServerDisconnected}
    ELSE IF FrameTooLarge(f.len) THEN {ReceiveFrame(f)}
    ELSE IF WLt(f.len, BLen(f.data)) THEN {ServerDisconnected, ReceiveFrame(f)}
    ELSE {ServerDisconnected}

\* the outcomes of receive on the frame f of the stream
ReceiveOutcomes(f) ==
    IF f.whole THEN {ReceiveFrame(f)}
    ELSE UNION {ReceiveCut(f, cut) : cut \in CutPoints(f)}

\* one call of TcpClient::receive that returns.  The client calls receive
\* again only after Ok (client/main.rs); after an Ok that read fewer bytes
\* than the server wrote for the frame the stream is out of step with the
\* frames, and what further calls cut out of it is not followed.
ClientReceive(c) ==
    /\ cst[c] = "open"
    /\ Len(rcv[c]) < Len(sent[c])
    /\ LET f == sent[c][Len(rcv[c]) + 1]
       IN  \E r \in ReceiveOutcomes(f) :
               /\ rcv' = [rcv EXCEPT ![c] = Append(@, r)]
               /\ cst' = [cst EXCEPT ![c] =
                            IF r.res = "ServerDisconnected" THEN "eof"
                            ELSE IF r.res # "Ok" THEN "failed"
                            ELSE IF f.len # BLen(f.data) THEN "desync"
                            ELSE "open"]
    /\ UNCHANGED << backlog, sent, sclosed, serverVars, acceptVars, mainVars,
                    histVars, codecVars, clientVars >>

\* The clients whose receive calls are followed.  What a receive returns
\* depends on the client's own connection only and nothing the server does
\* depends on it, so every outcome a client can see is seen by a client of
\* Readers; the other clients connect and leave their frames unread.
Readers == {1}

ClientStep ==
    \/ \E c \in Clients : ClientConnect(c)
    \/ \E c \in Readers : ClientReceive(c)

(***************************************************************************)
(* Spec: the accept thread, the clients, and a main thread that calls      *)
(* set_new_client_message, broadcast and drop in any order.                *)
(***************************************************************************)
SmallA == Bytes(<< 1, 2, 3, 4, 5 >>)

SmallB == Bytes(<< 10, 20, 30, 40, 50 >>)

\* n zero bytes
Zeros(n) == PaddedBytes(<< >>, n, << 0, 0 >>)

\* the data the main thread passes to broadcast: a small payload, and the
\* payloads on either side of the limit of the length prefix (2^32 - 1), the
\* shorter of which is over the limit of the frame reader (16 MiB)
BroadcastChoices ==
    {SmallA, Zeros(U32_MAX), Zeros(WAdd(U32_MAX, WNat(1)))}

\* the data the main thread passes to set_new_client_message
GreetingChoices ==
    {EmptyBytes, SmallB, Zeros(WAdd(MAX_FRAME_SIZE, WNat(1)))}

Init ==
    /\ InitServer
    /\ mpc = "idle"
    /\ play = NoPlay
    /\ CodecIdle
    /\ ClientIdle

MainSetGreeting ==
    /\ mpc = "idle"
    /\ lastSet = Unset
    /\ \E g \in GreetingChoices : SetNewClientMessage(g)
    /\ UNCHANGED mainVars

MainBroadcast ==
    /\ mpc = "idle"
    /\ Len(bhist) < MaxBroadcasts
    /\ \E p \in BroadcastChoices : BroadcastCall(p, "main")
    /\ UNCHANGED play

\* the main thread takes the result of its broadcast call
MainBroadcastReturned ==
    /\ bcont = "main"
    /\ BroadcastResultTaken
    /\ mpc' = "idle"
    /\ UNCHANGED play

Next ==
    \/ AcceptThread
    \/ ClientStep
    \/ MainSetGreeting
    \/ MainBroadcast
    \/ BroadcastSteps
    \/ MainBroadcastReturned

Spec == Init /\ [][Next]_vars

(***************************************************************************)
(* SpecWire: the server of Spec with a greeting longer than the 4-byte     *)
(* prefix can count.  set_new_client_message logs an error for such data   *)
(* and stores it all the same.                                             *)
(***************************************************************************)
\* the data passed to set_new_client_message: a small payload and one of
\* 2^32 + 5 bytes
WireGreetings == {SmallB, Zeros(WAdd(U32_MAX, WNat(6)))}

InitWire ==
    /\ InitServer
    /\ mpc = "idle"
    /\ play = NoPlay
    /\ CodecIdle
    /\ ClientIdle

WireSetGreeting ==
    /\ mpc = "idle"
    /\ lastSet = Unset
    /\ \E g \in WireGreetings : SetNewClientMessage(g)
    /\ UNCHANGED mainVars

WireBroadcast ==
    /\ mpc = "idle"
    /\ Len(bhist) < MaxBroadcasts
    /\ BroadcastCall(SmallA, "main")
    /\ UNCHANGED play

NextWire ==
    \/ AcceptThread
    \/ ClientStep
    \/ WireSetGreeting
    \/ WireBroadcast
    \/ BroadcastSteps
    \/ MainBroadcastReturned

SpecWire == InitWire /\ [][NextWire]_vars

(***************************************************************************)
(* The end of the server's life: drop() and the exit of the accept thread. *)
(* Spec follows the server while it is in use and has no drop.             *)
(***************************************************************************)
\* an accept thread that never sees the flag set
ShutdownSeen_Never == FALSE

\* shutdown_for_thread.load(Ordering::Relaxed)
ShutdownSeen == shutdown

\* top of the loop with the shutdown flag set: break
AcceptExit ==
    /\ apc = "top"
    /\ ShutdownSeen
    /\ apc' = "exited"
    /\ UNCHANGED << astream, serverVars, mainVars, netVars, histVars, codecVars, clientVars >>

\* drop(): the shutdown flag is set
MainDrop ==
    /\ mpc = "idle"
    /\ shutdown' = TRUE
    /\ mpc' = "join"
    /\ UNCHANGED << streams, new_client_message, gLock, sLock, acceptVars,
                    bdata, bclients, bsurv, bcont, bres, netVars, histVars,
                    codecVars, clientVars, play >>

\* drop(): handle.join() returns once the accept thread has exited
MainJoin ==
    /\ mpc = "join"
    /\ apc = "exited"
    /\ mpc' = "dropped"
    /\ UNCHANGED << serverVars, acceptVars, bdata, bclients, bsurv, bcont,
                    bres, netVars, histVars, codecVars, clientVars, play >>

\* the accept thread's steps that change the state.  The listener is
\* non-blocking, both mutexes are held by the main thread for the length of
\* one call only, and send_frame returns once the kernel has taken the
\* greeting or the write has failed: a thread that is scheduled takes its
\* next step.
AcceptProgress ==
    \/ AcceptOk
    \/ AcceptPush
    \/ AcceptExit

InitShutdown ==
    /\ InitServer
    /\ mpc = "idle"
    /\ play = NoPlay
    /\ CodecIdle
    /\ ClientIdle

\* The flag is read at the top of the loop only; between that read and the
\* accept the thread reads nothing the main thread writes, so the read and
\* the accept are one step, and a drop() that comes between them is the
\* drop() that comes right after the accept (apc = "push").
NextShutdown ==
    \/ AcceptThread
    \/ AcceptExit
    \/ \E c \in Clients : ClientConnect(c)
    \/ MainSetGreeting
    \/ MainDrop
    \/ MainJoin

\* the server from bind to the end of drop(), both threads scheduled fairly
SpecShutdown ==
    /\ InitShutdown
    /\ [][NextShutdown]_vars
    /\ WF_vars(AcceptProgress)
    /\ WF_vars(MainJoin)


(***************************************************************************)
(* SpecLocks: the two mutexes.  The main thread's calls are followed from  *)
(* the call of lock() to the grant and from the grant to the drop of the   *)
(* guard, so that a mutex is seen held by the main thread while the accept *)
(* thread wants it.  The accept thread holds the greeting mutex from       *)
(* AcceptOk to AcceptPush and asks for the peer-set mutex in AcceptPush.   *)
(***************************************************************************)
\* the points at which the main thread is blocked in lock(), by mutex
WaitsForGreeting == {"set_wait"}

WaitsForStreams == {"count_wait", "drain_wait", "b_reinsert"}

\* where the main thread is once the lock it waited for is granted
HeldAfter(wait) ==
    CASE wait = "set_wait" -> "set_held"
      [] wait = "count_wait" -> "count_held"
      [] wait = "drain_wait" -> "drain_held"
      [] wait = "b_reinsert" -> "reinsert_held"

\* a broadcast that keeps the guard of its first critical section
StreamsGuardAfterDrain_Kept == "main"

\* drop(streams) after the drain: the peer-set mutex is released before the
\* frames are sent
StreamsGuardAfterDrain == "free"

InitLocks ==
    /\ InitServer
    /\ mpc = "idle"
    /\ play = NoPlay
    /\ CodecIdle
    /\ ClientIdle

\* the main thread calls set_new_client_message (once), get_client_count
\* (any number of times) or broadcast (once, with data that passes the
\* length check) and reaches lock()
LockCall ==
    /\ mpc = "idle"
    /\ \/ /\ lastSet = Unset
          /\ mpc' = "set_wait"
          /\ bdata' = SmallB
       \/ /\ mpc' = "count_wait"
          /\ bdata' = EmptyBytes
       \/ /\ bhist = << >>
          /\ mpc' = "drain_wait"
          /\ bdata' = SmallA
    /\ UNCHANGED << bclients, bsurv, bcont, bres, play, serverVars, acceptVars,
                    netVars, histVars, codecVars, clientVars >>

\* lock() returns the guard to the main thread
LockAcquire ==
    /\ \/ /\ mpc \in WaitsForGreeting
          /\ gLock = "free"
          /\ gLock' = "main"
          /\ UNCHANGED sLock
       \/ /\ mpc \in WaitsForStreams
          /\ sLock = "free"
          /\ sLock' = "main"
          /\ UNCHANGED gLock
    /\ mpc' = HeldAfter(mpc)
    /\ UNCHANGED << streams, new_client_message, shutdown, bdata, bclients,
                    bsurv, bcont, bres, play, acceptVars, netVars, histVars,
                    codecVars, clientVars >>

\* the critical section of the call and the drop of its guard: the slot is
\* replaced; or the length of the peer set is read; or the peer set is
\* drained into `clients`; or the survivors are pushed back and broadcast
\* returns Ok(())
LockCritical ==
    /\ \/ /\ mpc = "set_held"
          /\ new_client_message' = SlotAfterSet(new_client_message, bdata)
          /\ lastSet' = bdata
          /\ gLock' = "free"
          /\ mpc' = "idle"
          /\ bdata' = EmptyBytes
          /\ UNCHANGED << streams, sLock, bclients, bsurv, bhist, bdrained,
                          bok, binserted >>
       \/ /\ mpc = "count_held"
          /\ sLock' = "free"
          /\ mpc' = "idle"
          /\ UNCHANGED << streams, new_client_message, gLock, bdata, bclients,
                          bsurv, bhist, lastSet, bdrained, bok, binserted >>
       \/ /\ mpc = "drain_held"
          /\ bclients' = streams
          /\ streams' = StreamsAfterDrain(streams)
          /\ bhist' = Append(bhist, bdata)
          /\ bdrained' = SeqSet(streams)
          /\ sLock' = StreamsGuardAfterDrain
          /\ mpc' = AfterSendTo(streams)
          /\ UNCHANGED << new_client_message, gLock, bdata, bsurv, lastSet,
                          bok, binserted >>
       \/ /\ mpc = "reinsert_held"
          /\ streams' = StreamsAfterReinsert(streams, bsurv)
          /\ bsurv' = << >>
          /\ sLock' = "free"
          /\ mpc' = "idle"
          /\ bdata' = EmptyBytes
          /\ bdrained' = {}
          /\ bok' = {}
          /\ binserted' = {}
          /\ UNCHANGED << new_client_message, gLock, bclients, bhist, lastSet >>
    /\ UNCHANGED << shutdown, bcont, bres, play, acceptVars, netVars, gAt,
                    codecVars, clientVars >>

NextLocks ==
    \/ AcceptThread
    \/ \E c \in Clients : ClientConnect(c)
    \/ LockCall
    \/ LockAcquire
    \/ LockCritical
    \/ BroadcastSend

\* Both threads are scheduled (send_frame returns, a critical section ends),
\* and a thread blocked in lock() on a mutex that is released again and
\* again is granted it.
SpecLocks ==
    /\ InitLocks
    /\ [][NextLocks]_vars
    /\ SF_vars(AcceptOk)
    /\ SF_vars(AcceptPush)
    /\ SF_vars(LockAcquire)
    /\ WF_vars(LockCritical)
    /\ WF_vars(BroadcastSend)


(***************************************************************************)
(* The pacer: Application::play_wav_file (server/main.rs).                 *)
(***************************************************************************)
SAMPLES_PER_GROUP == 1000

\* the most full groups the pacer flushes before the source ends
MaxFullGroups == 1

\* the format of the file played
FileSpec == SpecMsg(2, WNat(44100), 16, "Int")

\* the value of the samples of the file played
SourceSample == 7

\* the lengths of the sources: every flush of a full group uses up
\* SAMPLES_PER_GROUP + 1 samples; after the last one the source ends, or goes
\* on for one sample
SourceLens ==
    {q * (SAMPLES_PER_GROUP + 1) + r : q \in 0..MaxFullGroups, r \in {0, 1}}

\* a wait_time that leaves out the factor 0.8
WaitTime_NoFactor(rate) == (SAMPLES_PER_GROUP * 1000000) \div rate

\* wait_time as u64, for a sample rate of at least 1:
\* ((SAMPLES_PER_GROUP * 1_000_000) as f64) * 0.8 / (spec.sample_rate as f64).
\* The product with the f64 nearest to 0.8 rounds to 800000000.0 exactly; the
\* quotient of that by a u32 is, when not an integer, further from the next
\* integer (at least 1 / rate) than half an ulp (below 2^-23), so the cast
\* truncates it to the integer quotient.
WaitTime(rate) == (((SAMPLES_PER_GROUP * 1000000) \div 5) * 4) \div rate

\* the locals of play_wav_file at its start, for a file of format spec that
\* can or cannot be opened and whose samples are src; source keeps the
\* samples of the file as they were before the iterator consumed any
StartPlaySpec(spec, openable, src) ==
    [running |-> TRUE, openable |-> openable, input |-> src, source |-> src,
     spec |-> spec, wait_time |-> 0, serialization_buffer |-> EmptyBytes,
     sample_group |-> SampleVec(<< >>), sent_samples |-> WZero, sleeps |-> 0,
     ret |-> "none"]

\* the locals of play_wav_file at its start, for a file that can or cannot
\* be opened and whose samples are src
StartPlay(openable, src) == StartPlaySpec(FileSpec, openable, src)

PlayInputs ==
    {StartPlay(TRUE, PaddedSamples(<< >>, WNat(n), SourceSample)) :
        n \in SourceLens}
    \cup {StartPlay(FALSE, SampleVec(<< >>))}

InitPacer ==
    /\ InitServer
    /\ mpc = "p_start"
    /\ play \in PlayInputs
    /\ CodecIdle
    /\ ClientIdle

\* play_wav_file returns r
PlayReturn(r) ==
    /\ play' = [play EXCEPT !.ret = r]
    /\ mpc' = "p_done"

\* the step makes no call of broadcast and leaves the server alone
NoBroadcastCall ==
    UNCHANGED << bdata, bclients, bsurv, bcont, bres, serverVars, acceptVars,
                 netVars, histVars, codecVars, clientVars >>

\* WavAudioInput::init fails: return Err(AppError::WavFileRead)
PlayOpenFailed ==
    /\ mpc = "p_start"
    /\ ~play.openable
    /\ PlayReturn("WavFileRead")
    /\ NoBroadcastCall

\* the Spec message is serialized and set as the greeting
PlayStart ==
    /\ mpc = "p_start"
    /\ play.openable
    /\ LET r == serialize(play.spec, play.serialization_buffer)
       IN  IF r.ok
           THEN /\ SetNewClientMessage(r.buf)
                /\ play' = [play EXCEPT
                              !.serialization_buffer = r.buf,
                              !.wait_time = WaitTime(WInt(play.spec.sample_rate))]
                /\ mpc' = "p_wait"
                /\ UNCHANGED << bdata, bclients, bsurv, bcont, bres >>
           ELSE /\ PlayReturn("Serialization")
                /\ NoBroadcastCall

\* a wait that is over at once, whatever the count
WaitingForClients_Never(count) == FALSE

\* the condition of the wait loop: self.tcp.get_client_count() == 0
WaitingForClients(count) == count = 0

\* while self.tcp.get_client_count() == 0 { sleep(1 s) }
PlayWait ==
    /\ mpc = "p_wait"
    /\ sLock = "free"
    /\ WaitingForClients(Len(streams))
    /\ UNCHANGED vars

\* get_client_count() returns a count above 0: the wait is over
PlayClientFound ==
    /\ mpc = "p_wait"
    /\ sLock = "free"
    /\ ~WaitingForClients(Len(streams))
    /\ mpc' = "p_spec"
    /\ UNCHANGED play
    /\ NoBroadcastCall

\* self.tcp.broadcast(&serialization_buffer) of the Spec message
PlayBroadcastSpec ==
    /\ mpc = "p_spec"
    /\ BroadcastCall(play.serialization_buffer, "spec")
    /\ UNCHANGED play

\* the broadcast of the Spec message has returned: on Ok the buffer is
\* cleared and the loop over the samples begins
PlayAfterSpec ==
    /\ bcont = "spec"
    /\ BroadcastResultTaken
    /\ IF bres = "Err"
       THEN PlayReturn("Broadcast")
       ELSE /\ play' = [play EXCEPT !.serialization_buffer = EmptyBytes,
                                    !.sample_group = SampleVec(<< >>),
                                    !.sent_samples = WZero]
            /\ mpc' = "p_loop"

GroupFull == ~WLt(SLen(play.sample_group), WNat(SAMPLES_PER_GROUP))

\* the iterator yields samples while the group is not full: each is pushed.
\* The pushes up to the next full group or the end of the source are one
\* step: they change the locals only.
PlayPush ==
    /\ mpc = "p_loop"
    /\ SLen(play.input) # WZero
    /\ ~GroupFull
    /\ LET k == WMin(WSub(WNat(SAMPLES_PER_GROUP), SLen(play.sample_group)),
                     SLen(play.input))
       IN  play' = [play EXCEPT !.sample_group = VAppend(@, VTake(play.input, k)),
                                !.input = VDrop(@, k)]
    /\ UNCHANGED mpc
    /\ NoBroadcastCall

\* the iterator yields a sample while the group is full: the group is
\* serialized, cleared and broadcast; the sample itself is not pushed
PlayFlush ==
    /\ mpc = "p_loop"
    /\ SLen(play.input) # WZero
    /\ GroupFull
    /\ LET r == serialize(SamplesMsg(play.sample_group), play.serialization_buffer)
       IN  IF r.ok
           THEN /\ BroadcastCall(r.buf, "group")
                /\ play' = [play EXCEPT !.input = VDrop(@, WNat(1)),
                                        !.serialization_buffer = r.buf,
                                        !.sample_group = SampleVec(<< >>)]
           ELSE /\ PlayReturn("Serialization")
                /\ NoBroadcastCall

\* the broadcast of a full group has returned: on Ok
\* sent_samples += sample_group.len(), the sleep if sent_samples is above
\* sample_rate * 3, and serialization_buffer.clear()
PlayAfterFlush ==
    /\ bcont = "group"
    /\ BroadcastResultTaken
    /\ IF bres = "Err"
       THEN PlayReturn("Broadcast")
       ELSE LET n == WAdd(play.sent_samples, SLen(play.sample_group))
            IN  /\ play' = [play EXCEPT
                              !.sent_samples = n,
                              !.sleeps = IF WGt(n, WMul(play.spec.sample_rate, 3))
                                         THEN @ + 1 ELSE @,
                              !.serialization_buffer = EmptyBytes]
                /\ mpc' = "p_loop"

\* a loop that logs the error of the iterator and goes on to the next sample
AfterReadError_Continue == "p_loop"

\* where the Err arm of the loop leads: return Err(AppError::WavFileRead(e))
AfterReadError == "p_done"

\* the iterator yields an error, which a read of the file can do at any
\* sample: return Err(AppError::WavFileRead)
PlayReadError ==
    /\ mpc = "p_loop"
    /\ play.ret = "none"
    /\ play' = [play EXCEPT !.ret = "WavFileRead"]
    /\ mpc' = AfterReadError
    /\ NoBroadcastCall

\* a final flush that is made of an empty group too
FinalGroupPending_Always(group) == TRUE

\* whether the final group is flushed: !sample_group.is_empty()
FinalGroupPending(group) == SLen(group) # WZero

\* the iterator is exhausted: a non-empty group is serialized and broadcast
PlayFinal ==
    /\ mpc = "p_loop"
    /\ SLen(play.input) = WZero
    /\ IF FinalGroupPending(play.sample_group)
       THEN LET r == serialize(SamplesMsg(play.sample_group),
                               play.serialization_buffer)
            IN  IF r.ok
                THEN /\ BroadcastCall(r.buf, "final")
                     /\ play' = [play EXCEPT !.serialization_buffer = r.buf]
                ELSE /\ PlayReturn("Serialization")
                     /\ NoBroadcastCall
       ELSE /\ PlayReturn("Ok")
            /\ NoBroadcastCall

\* the broadcast of the final group has returned: on Ok the buffer is cleared
\* and play_wav_file returns Ok(())
PlayAfterFinal ==
    /\ bcont = "final"
    /\ BroadcastResultTaken
    /\ IF bres = "Err"
       THEN PlayReturn("Broadcast")
       ELSE /\ play' = [play EXCEPT !.serialization_buffer = EmptyBytes,
                                    !.ret = "Ok"]
            /\ mpc' = "p_done"

PlayWavFile ==
    \/ PlayOpenFailed
    \/ PlayStart
    \/ PlayWait
    \/ PlayClientFound
    \/ PlayBroadcastSpec
    \/ PlayAfterSpec
    \/ PlayPush
    \/ PlayFlush
    \/ PlayAfterFlush
    \/ PlayReadError
    \/ PlayFinal
    \/ PlayAfterFinal

(***************************************************************************)
(* SpecPacer: the accept thread and the clients against play_wav_file.     *)
(***************************************************************************)
\* The client whose receive calls are followed is the second to connect: the
\* pacer broadcasts nothing before a first peer is in the peer set, so it is
\* a later connection that can be accepted at every point of the stream.
PacerReaders == {2}

NextPacer ==
    \/ AcceptThread
    \/ \E c \in Clients : ClientConnect(c)
    \/ \E c \in PacerReaders : ClientReceive(c)
    \/ BroadcastSteps
    \/ PlayWavFile

SpecPacer == InitPacer /\ [][NextPacer]_vars

(***************************************************************************)
(* SpecPacing: play_wav_file on files of several sample rates, against the *)
(* accept thread and clients that connect and leave their frames unread.   *)
(***************************************************************************)
\* the sample rates of the files played: one whose warm-up (3 s of samples)
\* is shorter than a group, and the two usual ones
SampleRates == {300, 44100, 48000}

PacingInputs ==
    {StartPlaySpec(SpecMsg(2, WNat(rate), 16, "Int"), TRUE,
                   PaddedSamples(<< >>, WNat(n), SourceSample)) :
        rate \in SampleRates, n \in SourceLens}
    \cup {StartPlay(FALSE, SampleVec(<< >>))}

InitPacing ==
    /\ InitServer
    /\ mpc = "p_start"
    /\ play \in PacingInputs
    /\ CodecIdle
    /\ ClientIdle

NextPacing ==
    \/ AcceptThread
    \/ \E c \in Clients : ClientConnect(c)
    \/ BroadcastSteps
    \/ PlayWavFile

SpecPacing == InitPacing /\ [][NextPacing]_vars

(***************************************************************************)
(* The speaker sink (audio/output.rs): SpeakerOutput::play_samples on the  *)
(* producer side of the ring buffer and fill_from_consumer, the device     *)
(* callback, on the consumer side.                                         *)
(***************************************************************************)
\* the capacity of the ring buffer of the model (HeapRb::<i16>::new(n))
RingCapacity == 3

\* the most calls of play_samples, runs of the callback, and output frames
\* the device asks for in one run
MaxBatches == 2

MaxCallbacks == 2

MaxOutFrames == 2

\* chunks_mut(2): the slots the callback fills with one sample
CHUNK_SLOTS == 2

\* Sample::EQUILIBRIUM of i16
EQUILIBRIUM == 0

\* the batches handed to play_samples: up to one sample more than the ring
\* can hold
Batches == {[i \in 1..n |-> i] : n \in 1..(RingCapacity + 1)}

\* the channel counts and native sample formats of the output devices
DeviceChannels == {1, 2, 3}

DeviceFormats == {"f32", "i16", "u16"}

\* Sample::from_sample::<i16>(s) into the native format: i16 as it is, u16
\* shifted by 32768, f32 the fraction s / 32768
FromSample(format, s) ==
    IF format = "i16" THEN s
    ELSE IF format = "u16" THEN s + 32768
    ELSE [num |-> s, den |-> 32768]

\* producer.vacant_len()
VacantLen == RingCapacity - Len(ring)

\* a wait that ends as soon as the ring has room for one sample
RoomFor_OneSample(n) == VacantLen > 0

\* the wait of play_samples is over: !(vacant_len() < samples.len())
RoomFor(n) == ~(VacantLen < n)

\* the stream just built for a device of the given channels and format
StartCallback(channels, format) ==
    [ran |-> FALSE, channels |-> channels, format |-> format, frames |-> 0,
     out |-> << >>, taken |-> << >>, before |-> << >>, drained |-> << >>,
     runs |-> 0]

\* the step leaves everything but the speaker sink alone
OnlySpeakerSink ==
    UNCHANGED << stop, loop, sinks, inbox, codecVars, serverVars, acceptVars,
                 mainVars, netVars, histVars >>

\* play_samples(samples) is called
PlaySamplesCall ==
    /\ producer.pc = "idle"
    /\ producer.calls < MaxBatches
    /\ \E b \in Batches :
         producer' = [producer EXCEPT !.pc = "spin", !.samples = b,
                                      !.calls = @ + 1]
    /\ UNCHANGED << ring, callback >>
    /\ OnlySpeakerSink

\* while self.producer.vacant_len() < samples.len() {}: one turn
PlaySamplesSpin ==
    /\ producer.pc = "spin"
    /\ ~RoomFor(Len(producer.samples))
    /\ UNCHANGED vars

\* the while loop ends
PlaySamplesProceed ==
    /\ producer.pc = "spin"
    /\ RoomFor(Len(producer.samples))
    /\ producer' = [producer EXCEPT !.pc = "push"]
    /\ UNCHANGED << ring, callback >>
    /\ OnlySpeakerSink

\* the samples push_slice takes: as many as fit
PushedCount(n) == IF n < VacantLen THEN n ELSE VacantLen

\* push_slice(samples) and the return of pushed_count
PlaySamplesPush ==
    /\ producer.pc = "push"
    /\ LET pushed_count == PushedCount(Len(producer.samples))
       IN  /\ ring' = ring \o SubSeq(producer.samples, 1, pushed_count)
           /\ producer' = [producer EXCEPT
                             !.pc = "returned", !.ret = pushed_count,
                             !.handed = @ \o producer.samples]
    /\ UNCHANGED callback
    /\ OnlySpeakerSink

\* the caller has the result
PlaySamplesReturned ==
    /\ producer.pc = "returned"
    /\ producer' = [producer EXCEPT !.pc = "idle"]
    /\ UNCHANGED << ring, callback >>
    /\ OnlySpeakerSink

RECURSIVE FillFromConsumer(_, _, _, _)
\* fill_from_consumer over the slots left of out: each chunk of CHUNK_SLOTS
\* slots (the last one may be shorter) takes consumer.try_pop(), or
\* EQUILIBRIUM when the ring is empty, and writes it to all its slots
FillFromConsumer(left, rb, format, acc) ==
    IF left = 0 THEN [acc EXCEPT !.ring = rb]
    ELSE LET n == IF left < CHUNK_SLOTS THEN left ELSE CHUNK_SLOTS
             s == IF rb = << >> THEN EQUILIBRIUM ELSE Head(rb)
         IN  FillFromConsumer(
                 left - n, IF rb = << >> THEN rb ELSE Tail(rb), format,
                 [acc EXCEPT
                    !.out = @ \o [i \in 1..n |-> FromSample(format, s)],
                    !.taken = Append(@, [popped |-> rb # << >>, s |-> s])])

\* a callback that reads the samples and leaves them in the ring buffer
Callback_LeavesSamples ==
    /\ callback.runs < MaxCallbacks
    /\ \E frames \in 1..MaxOutFrames :
         LET r == FillFromConsumer(frames * callback.channels, ring,
                                   callback.format,
                                   [out |-> << >>, taken |-> << >>, ring |-> ring])
             popped == SelectSeq(r.taken, LAMBDA t : t.popped)
         IN  /\ ring' = ring
             /\ callback' = [callback EXCEPT
                               !.ran = TRUE, !.frames = frames,
                               !.out = r.out, !.taken = r.taken,
                               !.before = ring,
                               !.drained = @ \o [i \in 1..Len(popped) |-> popped[i].s],
                               !.runs = @ + 1]
    /\ UNCHANGED producer
    /\ OnlySpeakerSink

\* the device calls the callback for a buffer of frames output frames of
\* callback.channels slots each
Callback ==
    /\ callback.runs < MaxCallbacks
    /\ \E frames \in 1..MaxOutFrames :
         LET r == FillFromConsumer(frames * callback.channels, ring,
                                   callback.format,
                                   [out |-> << >>, taken |-> << >>, ring |-> ring])
             popped == SelectSeq(r.taken, LAMBDA t : t.popped)
         IN  /\ ring' = r.ring
             /\ callback' = [callback EXCEPT
                               !.ran = TRUE, !.frames = frames,
                               !.out = r.out, !.taken = r.taken,
                               !.before = ring,
                               !.drained = @ \o [i \in 1..Len(popped) |-> popped[i].s],
                               !.runs = @ + 1]
    /\ UNCHANGED producer
    /\ OnlySpeakerSink

(***************************************************************************)
(* SpecRing: calls of play_samples against the device callback.            *)
(***************************************************************************)
InitRing ==
    /\ ring = << >>
    /\ producer = [pc |-> "idle", samples |-> << >>, ret |-> 0, calls |-> 0,
                   handed |-> << >>]
    /\ callback \in {StartCallback(c, f) :
                        c \in DeviceChannels, f \in DeviceFormats}
    /\ stop = FALSE
    /\ loop = NoLoop
    /\ sinks = << >>
    /\ inbox = << >>
    /\ InitServer
    /\ mpc = "idle"
    /\ play = NoPlay
    /\ CodecIdle

NextRing ==
    \/ PlaySamplesCall
    \/ PlaySamplesSpin
    \/ PlaySamplesProceed
    \/ PlaySamplesPush
    \/ PlaySamplesReturned
    \/ Callback

SpecRing == InitRing /\ [][NextRing]_vars

(***************************************************************************)
(* SpecRingFair: play_samples against a device that keeps calling the      *)
(* callback for as long as the stream lives.                               *)
(***************************************************************************)
\* the device calls the callback once more; the runs are counted up to
\* MaxCallbacks only, the device never stops calling
DeviceCallback ==
    /\ \E frames \in 1..MaxOutFrames :
         LET r == FillFromConsumer(frames * callback.channels, ring,
                                   callback.format,
                                   [out |-> << >>, taken |-> << >>, ring |-> ring])
             popped == SelectSeq(r.taken, LAMBDA t : t.popped)
         IN  /\ ring' = r.ring
             /\ callback' = [callback EXCEPT
                               !.ran = TRUE, !.frames = frames,
                               !.out = r.out, !.taken = r.taken,
                               !.before = ring,
                               !.drained = @ \o [i \in 1..Len(popped) |-> popped[i].s],
                               !.runs = IF @ < MaxCallbacks THEN @ + 1 ELSE @]
    /\ UNCHANGED producer
    /\ OnlySpeakerSink

NextRingFair ==
    \/ PlaySamplesCall
    \/ PlaySamplesSpin
    \/ PlaySamplesProceed
    \/ PlaySamplesPush
    \/ PlaySamplesReturned
    \/ DeviceCallback

\* the consumer is fair: the callback is run again and again, and the thread
\* in play_samples is scheduled
SpecRingFair ==
    /\ InitRing
    /\ [][NextRingFair]_vars
    /\ WF_vars(DeviceCallback)
    /\ WF_vars(PlaySamplesProceed)
    /\ WF_vars(PlaySamplesPush)
    /\ WF_vars(PlaySamplesReturned)

(***************************************************************************)
(* SpecCodec: serialize and deserialize applied to the drawn input, then   *)
(* the other one applied to the result.                                    *)
(***************************************************************************)
InitCodec ==
    /\ cin \in {[kind |-> "msg", msg |-> m] : m \in MsgInputs}
               \cup {[kind |-> "bytes", bytes |-> b] : b \in ByteInputs}
    /\ cser = NoResult
    /\ cdes = NoResult
    /\ cpc = "in"
    /\ InitServer
    /\ mpc = "idle"
    /\ play = NoPlay
    /\ ClientIdle

\* msg.serialize(&mut buf) with buf = Vec::new()
CodecSerialize ==
    /\ cpc = "in"
    /\ cin.kind = "msg"
    /\ cser' = serialize(cin.msg, EmptyBytes)
    /\ cpc' = "ser"
    /\ UNCHANGED << cin, cdes, nonCodecVars >>

\* AudioMessage::deserialize(&buf) of the buffer just serialized
CodecDeserializeBack ==
    /\ cpc = "ser"
    /\ cser.ok
    /\ cdes' = deserialize(cser.buf)
    /\ cpc' = "serdes"
    /\ UNCHANGED << cin, cser, nonCodecVars >>

\* AudioMessage::deserialize(bytes)
CodecDeserialize ==
    /\ cpc = "in"
    /\ cin.kind = "bytes"
    /\ cdes' = deserialize(cin.bytes)
    /\ cpc' = "des"
    /\ UNCHANGED << cin, cser, nonCodecVars >>

\* the decoded message serialized into an empty buffer
CodecSerializeBack ==
    /\ cpc = "des"
    /\ cdes.ok
    /\ cser' = serialize(cdes.msg, EmptyBytes)
    /\ cpc' = "desser"
    /\ UNCHANGED << cin, cdes, nonCodecVars >>

NextCodec ==
    \/ CodecSerialize
    \/ CodecDeserializeBack
    \/ CodecDeserialize
    \/ CodecSerializeBack

SpecCodec == InitCodec /\ [][NextCodec]_vars

(***************************************************************************)
(* The client application (client/main.rs): Application::receive and the   *)
(* two loops, write_audio_to_file and play_audio.                          *)
(***************************************************************************)
\* the most calls of receive the loop makes
MaxFrames == 3

\* output = None, speaker_output = None
NoSink == 0

\* the locals of a loop at its start; mode is "file" for
\* write_audio_to_file and "speaker" for play_audio
StartLoop(mode) ==
    [mode |-> mode, pc |-> "top", buffer |-> EmptyBytes, output |-> NoSink,
     built |-> NoSink, held |-> NoSink, ret |-> "none", exit |-> "none"]

\* a sink just created (WavAudioOutput::new, SpeakerOutputBuilder::build)
\* while epoch Spec messages have been received, the last one being spec
NewSink(epoch, spec) ==
    [epoch |-> epoch, spec |-> spec, status |-> "active", written |-> 0]

\* the sinks with sink i, if there is one, in the given status
SetStatus(ss, i, status) ==
    IF i = NoSink THEN ss ELSE [ss EXCEPT ![i].status = status]

\* the Spec messages received so far
SpecsReceived ==
    Cardinality({i \in 1..Len(inbox) : inbox[i].type = "Spec"})

\* the payloads of the frames that arrive: a Spec message, a Samples
\* message, a message with an unknown tag, and the payloads on either side
\* of MAX_FRAME_SIZE
SpecPayload == serialize(SpecMsg(2, WNat(44100), 16, "Int"), EmptyBytes).buf

SamplesPayload == serialize(SamplesMsg(SampleVec(<< 1, -2 >>)), EmptyBytes).buf

UnknownTagPayload == Bytes(<< 9, 9 >>)

ArrivingPayloads ==
    {SpecPayload, SamplesPayload, UnknownTagPayload,
     PaddedBytes(<< >>, MAX_FRAME_SIZE, << 0, 0 >>),
     PaddedBytes(<< >>, WAdd(MAX_FRAME_SIZE, WNat(1)), << 0, 0 >>)}

\* what a call of TcpClient::receive meets on the stream: a frame, the end
\* of the stream (the server is gone), or another I/O error
Arrivals ==
    {[kind |-> "frame", frame |-> Frame("in", 0, d)] : d \in ArrivingPayloads}
    \cup {[kind |-> "eof"], [kind |-> "io"]}

\* TcpClient::receive(buf) on the arrival a
TcpReceive(a) ==
    IF a.kind = "frame" THEN ReceiveFrame(a.frame)
    ELSE IF a.kind = "eof" THEN ServerDisconnected
    ELSE [res |-> "Io"]

\* the buffer after receive: it is resized and filled only once the length
\* has passed the test
BufferAfterReceive(buf, r) == IF r.res = "Ok" THEN r.buf ELSE buf

\* the bytes receive has taken from the stream: the prefix, and the payload
\* once the length has passed the test
StreamBytesRead(a, r) ==
    IF a.kind # "frame" THEN WZero
    ELSE IF r.res = "Ok" THEN WAdd(WNat(4), r.length)
    ELSE WNat(4)

\* Application::receive: Ok(Data), Ok(ServerDisconnected) or
\* Err(ApplicationError::TcpClientError)
AppReceive(r) ==
    IF r.res = "Ok" THEN "Data"
    ELSE IF r.res = "ServerDisconnected" THEN "ServerDisconnected"
    ELSE "TcpClientError"

\* the loop returns r; the sink it held, if any, goes out of scope
LoopReturn(l, r, why) ==
    [l EXCEPT !.pc = "done", !.ret = r, !.exit = why, !.held = l.output,
              !.output = NoSink]

\* the record of a call of receive: what arrived, what TcpClient::receive
\* returned, the bytes it read and the buffer after it, the sink the loop
\* had, the type of the message and the Spec messages received up to it,
\* the sink the message was forwarded to, and whether the stop flag was set
\* when the call returned
ReceiveEvent(a, r, buf) ==
    [arrival |-> a, res |-> r, read |-> StreamBytesRead(a, r), buffer |-> buf,
     had |-> loop.output, type |-> "none", epoch |-> SpecsReceived,
     to |-> NoSink, stopped |-> stop]

\* the steps of both loops when receive yields no data: return Ok(()) on
\* ServerDisconnected, and Err through `?` on any other error
NoDataIteration(l0, ev0, outcome) ==
    IF outcome = "ServerDisconnected"
    THEN [loop |-> LoopReturn(l0, "Ok", "disconnect"),
          sinks |-> SetStatus(sinks, loop.output, "dropped"), event |-> ev0]
    ELSE [loop |-> LoopReturn(l0, "TcpClientError", "error"),
          sinks |-> SetStatus(sinks, loop.output, "dropped"), event |-> ev0]

\* a loop that returns an error when a frame cannot be decoded
AfterDecodeError_Return(l) == LoopReturn(l, "DeserializeError", "error")

\* the Err arm of the match on the decoded message, in both loops: the
\* error is logged and the loop goes on
AfterDecodeError(l) == l

\* one iteration of write_audio_to_file past the test of the stop flag, on
\* the arrival a; ok says whether the call made on the sink (WavAudioOutput::new,
\* write_samples) succeeds
FileIteration(a, ok) ==
    LET r       == TcpReceive(a)
        outcome == AppReceive(r)
        buf     == BufferAfterReceive(EmptyBytes, r)
        l0      == [loop EXCEPT !.buffer = buf, !.pc = "top"]
        ev0     == ReceiveEvent(a, r, buf)
    IN  IF outcome # "Data" THEN NoDataIteration(l0, ev0, outcome)
        ELSE LET m == deserialize(buf)
             IN  IF ~m.ok
                 THEN [loop |-> AfterDecodeError(l0), sinks |-> sinks,
                       event |-> [ev0 EXCEPT !.type = "Err"]]
                 ELSE IF m.msg.type = "Spec"
                 THEN LET finalized == SetStatus(sinks, loop.output, "finalized")
                          ev == [ev0 EXCEPT !.type = "Spec", !.epoch = @ + 1]
                      IN  IF ok
                          THEN [loop |-> [l0 EXCEPT !.output = Len(sinks) + 1],
                                sinks |-> Append(finalized, NewSink(ev.epoch, m.msg)),
                                event |-> ev]
                          ELSE [loop |-> LoopReturn(l0, "WavAudioOutputError", "error"),
                                sinks |-> finalized, event |-> ev]
                 ELSE LET ev == [ev0 EXCEPT !.type = "Samples", !.to = loop.output]
                      IN  IF loop.output = NoSink
                          THEN [loop |-> l0, sinks |-> sinks, event |-> ev]
                          ELSE IF ok
                          THEN [loop |-> l0,
                                sinks |-> [sinks EXCEPT ![loop.output].written = @ + 1],
                                event |-> ev]
                          ELSE [loop |-> LoopReturn(l0, "WavAudioOutputError", "error"),
                                sinks |-> SetStatus(sinks, loop.output, "dropped"),
                                event |-> ev]

\* one iteration of play_audio past the test of the stop flag, on the
\* arrival a, up to the return of speaker_builder.build(); ok says whether build succeeds.
\* A sink that is built plays from then on, while speaker_output still holds
\* the sink before it; a failed build is logged and the loop continues.
SpeakerIteration(a, ok) ==
    LET r       == TcpReceive(a)
        outcome == AppReceive(r)
        buf     == BufferAfterReceive(EmptyBytes, r)
        l0      == [loop EXCEPT !.buffer = buf, !.pc = "top"]
        ev0     == ReceiveEvent(a, r, buf)
    IN  IF outcome # "Data" THEN NoDataIteration(l0, ev0, outcome)
        ELSE LET m == deserialize(buf)
             IN  IF ~m.ok
                 THEN [loop |-> AfterDecodeError(l0), sinks |-> sinks,
                       event |-> [ev0 EXCEPT !.type = "Err"]]
                 ELSE IF m.msg.type = "Spec"
                 THEN LET ev == [ev0 EXCEPT !.type = "Spec", !.epoch = @ + 1]
                      IN  IF ok
                          THEN [loop |-> [l0 EXCEPT !.pc = "assign",
                                                    !.built = Len(sinks) + 1],
                                sinks |-> Append(sinks, NewSink(ev.epoch, m.msg)),
                                event |-> ev]
                          ELSE [loop |-> l0, sinks |-> sinks, event |-> ev]
                 ELSE LET ev == [ev0 EXCEPT !.type = "Samples", !.to = loop.output]
                      IN  IF loop.output = NoSink
                          THEN [loop |-> l0, sinks |-> sinks, event |-> ev]
                          ELSE [loop |-> l0,
                                sinks |-> [sinks EXCEPT ![loop.output].written = @ + 1],
                                event |-> ev]

\* the step leaves everything but the client loop alone
OnlyClientLoop ==
    UNCHANGED << ring, producer, callback, codecVars, serverVars, acceptVars,
                 mainVars, netVars, histVars >>

\* the Ctrl-C handler: stop.store(true)
CtrlC ==
    /\ loop.mode # "none"
    /\ ~stop
    /\ stop' = TRUE
    /\ UNCHANGED << loop, sinks, inbox >>
    /\ OnlyClientLoop

\* a loop that never sees the flag set
StopSeen_Never == FALSE

\* self.stop.load(SeqCst)
StopSeen == stop

\* top of either loop with the stop flag clear: buffer.clear(), the test of
\* the flag, and on to the call of receive, which blocks until something
\* arrives
StopFlagClear ==
    /\ loop.mode # "none"
    /\ loop.pc = "top"
    /\ ~StopSeen
    /\ loop' = [loop EXCEPT !.buffer = EmptyBytes, !.pc = "recv"]
    /\ UNCHANGED << stop, sinks, inbox >>
    /\ OnlyClientLoop

\* write_audio_to_file, top of the loop with the stop flag set: the sink is
\* finalized (the result is logged) and the loop returns Ok(())
WriteAudioToFileStopped ==
    /\ loop.mode = "file"
    /\ loop.pc = "top"
    /\ StopSeen
    /\ sinks' = SetStatus(sinks, loop.output, "finalized")
    /\ loop' = LoopReturn([loop EXCEPT !.buffer = EmptyBytes], "Ok", "stop")
    /\ UNCHANGED << stop, inbox >>
    /\ OnlyClientLoop

\* write_audio_to_file, from the return of receive to the end of the
\* iteration
WriteAudioToFile ==
    /\ loop.mode = "file"
    /\ loop.pc = "recv"
    /\ Len(inbox) < MaxFrames
    /\ \E a \in Arrivals, ok \in BOOLEAN :
         LET n == FileIteration(a, ok)
         IN  /\ loop' = n.loop
             /\ sinks' = n.sinks
             /\ inbox' = Append(inbox, n.event)
    /\ UNCHANGED stop
    /\ OnlyClientLoop

\* play_audio, top of the loop with the stop flag set: the sink is paused
\* (an error is logged) and the loop returns Ok(())
PlayAudioStopped ==
    /\ loop.mode = "speaker"
    /\ loop.pc = "top"
    /\ StopSeen
    /\ sinks' = SetStatus(sinks, loop.output, "paused")
    /\ loop' = LoopReturn([loop EXCEPT !.buffer = EmptyBytes], "Ok", "stop")
    /\ UNCHANGED << stop, inbox >>
    /\ OnlyClientLoop

\* play_audio, from the return of receive to the return of build() or the
\* end of the iteration
PlayAudio ==
    /\ loop.mode = "speaker"
    /\ loop.pc = "recv"
    /\ Len(inbox) < MaxFrames
    /\ \E a \in Arrivals, ok \in BOOLEAN :
         LET n == SpeakerIteration(a, ok)
         IN  /\ loop' = n.loop
             /\ sinks' = n.sinks
             /\ inbox' = Append(inbox, n.event)
    /\ UNCHANGED stop
    /\ OnlyClientLoop

\* play_audio: speaker_output = Some(so); the sink held before, if any, is
\* dropped by the assignment
PlayAudioAssign ==
    /\ loop.mode = "speaker"
    /\ loop.pc = "assign"
    /\ sinks' = SetStatus(sinks, loop.output, "dropped")
    /\ loop' = [loop EXCEPT !.output = loop.built, !.built = NoSink,
                            !.pc = "top"]
    /\ UNCHANGED << stop, inbox >>
    /\ OnlyClientLoop

(***************************************************************************)
(* SpecClient: one of the two loops, on any arrivals, with Ctrl-C at any   *)
(* time.                                                                   *)
(***************************************************************************)
InitClient ==
    /\ loop \in {StartLoop("file"), StartLoop("speaker")}
    /\ stop = FALSE
    /\ sinks = << >>
    /\ inbox = << >>
    /\ ring = << >>
    /\ producer = NoPush
    /\ callback = NoCallback
    /\ InitServer
    /\ mpc = "idle"
    /\ play = NoPlay
    /\ CodecIdle

NextClient ==
    \/ CtrlC
    \/ StopFlagClear
    \/ WriteAudioToFileStopped
    \/ WriteAudioToFile
    \/ PlayAudioStopped
    \/ PlayAudio
    \/ PlayAudioAssign

SpecClient == InitClient /\ [][NextClient]_vars

(***************************************************************************)
(* Properties of the message codec (SpecCodec).                            *)
(***************************************************************************)
\* C6: for every Spec message and every Samples batch that serialize
\* accepts, deserializing the bytes serialized into an empty buffer
\* succeeds and returns the message.
C6_RoundTripMessage ==
    cpc = "serdes" => cdes.ok /\ cdes.msg = cin.msg

\* a batch of the largest accepted count, 2^31 - 1, has made the round trip
C6_Witness ==
    /\ cpc = "serdes"
    /\ cin.msg.type = "Samples"
    /\ SLen(cin.msg.samples) = W(32767, 65535)
    /\ Len(cin.msg.samples.head) = 2

\* C7: for every byte string b, deserialize(b) returns an error or a
\* message whose serialization into an empty buffer is exactly b.
C7_RoundTripBytes ==
    cpc = "desser" => cser.ok /\ cser.buf = cin.bytes

\* C7 for the byte strings that declare at most 2^31 - 1 samples
C7_RoundTripBytesSmall ==
    (cpc = "desser" /\ (cdes.msg.type = "Samples"
                            => WLe(SLen(cdes.msg.samples), W(32767, 65535))))
        => cser.ok /\ cser.buf = cin.bytes

\* the first byte of the input, when it has one
FirstByte == ByteAt(cin.bytes, 1)

\* C8: an input whose first byte is neither 0x01 nor 0x02 yields the
\* unknown-message-type error carrying that byte; a 10-byte input with tag
\* 0x01 whose sample format byte is neither 0x01 nor 0x02 yields the
\* unknown-sample-format error.
C8_UnknownTagAndFormat ==
    cpc = "des" =>
        /\ (~BIsEmpty(cin.bytes) /\ FirstByte \notin {1, 2})
              => cdes = [ok |-> FALSE,
                         err |-> [kind |-> "IncorrectAudioMessageType",
                                  tag |-> FirstByte]]
        /\ (BLen(cin.bytes) = W(0, 10) /\ FirstByte = 1
                /\ ByteAt(cin.bytes, 10) \notin {1, 2})
              => cdes = [ok |-> FALSE,
                         err |-> [kind |-> "UnknownWaveSpecSampleFormat"]]

\* the frame of the unit test: 01 01 00 44 AC 00 00 10 00 63
C8_Witness ==
    /\ cpc = "des"
    /\ cin.bytes = Bytes(<< 1, 1, 0, 68, 172, 0, 0, 16, 0, 99 >>)
    /\ ~cdes.ok

\* another unknown tag has been reported
C8_WitnessTag ==
    /\ cpc = "des"
    /\ cin.bytes = Bytes(<< 99, 1 >>)
    /\ ~cdes.ok

\* a length mismatch was reported
IsLengthMismatch == ~cdes.ok /\ cdes.err.kind = "DataLengthMismatch"

\* the three cases of a length mismatch that the claim lists: a Spec frame
\* that is not 10 bytes, a Samples frame under 5 bytes, a Samples frame
\* whose length is not 5 + 2 * (declared count)
ListedMismatch ==
    /\ ~BIsEmpty(cin.bytes)
    /\ \/ FirstByte = 1 /\ BLen(cin.bytes) # W(0, 10)
       \/ FirstByte = 2 /\ WLt(BLen(cin.bytes), W(0, 5))
       \/ /\ FirstByte = 2
          /\ WLe(W(0, 5), BLen(cin.bytes))
          /\ BLen(cin.bytes)
               # WAdd(W(0, 5), WMul(U32FromLe(SubSeq(BTake(cin.bytes, 5), 2, 5)), 2))

\* C9 as stated: a length mismatch is reported exactly in the three listed
\* cases.
C9_MismatchExactly ==
    cpc = "des" => (IsLengthMismatch <=> ListedMismatch)

\* C9 as amended: a length mismatch is reported exactly in the three listed
\* cases and for the empty input (got 0, expected 1).
C9_MismatchExactlyOrEmpty ==
    cpc = "des" =>
        /\ IsLengthMismatch <=> (ListedMismatch \/ BIsEmpty(cin.bytes))
        /\ BIsEmpty(cin.bytes)
              => cdes.err = [kind |-> "DataLengthMismatch",
                             current_length |-> WZero, expected_length |-> W(0, 1)]

\* a Samples frame that declares one sample and carries two was rejected
C9_Witness ==
    /\ cpc = "des"
    /\ cin.bytes = Bytes(<< 2, 1, 0, 0, 0, 1, 0, 255, 255 >>)
    /\ IsLengthMismatch
    /\ cdes.err.expected_length = W(0, 7)
    /\ cdes.err.current_length = W(0, 9)

\* C10: serialize fails, with the payload-too-long error, exactly when the
\* message is a Samples batch of more than floor((2^32 - 1) / 2) =
\* 2147483647 samples.
C10_SerializeFailsExactly ==
    cpc = "ser" =>
        /\ ~cser.ok <=> (cin.msg.type = "Samples"
                            /\ WGt(SLen(cin.msg.samples), W(32767, 65535)))
        /\ ~cser.ok => cser.err.kind = "TooLong" /\ cser.buf = EmptyBytes

\* a batch of 2^31 samples has been rejected
C10_Witness ==
    /\ cpc = "ser"
    /\ cin.msg.type = "Samples"
    /\ SLen(cin.msg.samples) = W(32768, 0)
    /\ ~cser.ok

(***************************************************************************)
(* Properties of the broadcast server and the frame reader (Spec).         *)
(***************************************************************************)
\* the payload the server was given for the i-th frame written to c: the
\* greeting in the slot when c was accepted, or the argument of the
\* broadcast call that wrote the frame
PayloadOf(c, i) ==
    IF sent[c][i].kind = "greeting" THEN gAt[c].acc ELSE bhist[sent[c][i].seq]

\* the client's first receive has returned something other than a disconnect
FirstReceiveReturned(c) ==
    /\ c \in Readers
    /\ rcv[c] # << >>
    /\ rcv[c][1].res # "ServerDisconnected"

FramesInCallOrder(c) ==
    \A i \in 2..Len(sent[c]) :
        /\ sent[c][i].kind = "broadcast"
        /\ sent[c][i - 1].kind = "broadcast" => sent[c][i].seq = sent[c][i - 1].seq + 1

\* C2 as stated: the payloads a peer's receive calls return are its greeting
\* (if one was sent) and then the payloads of consecutive broadcast calls in
\* call order, each equal byte for byte to the payload passed to the server.
C2_PayloadsInOrder ==
    \A c \in Readers :
        /\ FramesInCallOrder(c)
        /\ \A i \in 1..Len(rcv[c]) :
              rcv[c][i].res # "ServerDisconnected" =>
                  /\ rcv[c][i].res = "Ok"
                  /\ rcv[c][i].buf = PayloadOf(c, i)

\* C2 as amended: the same for the payloads of at most 16 MiB; a payload
\* that is longer (broadcast accepts up to 2^32 - 1 bytes) makes the peer's
\* receive fail with FrameTooLarge, and the peer receives nothing after it.
\* (The length is the one the prefix carries, which for a greeting of 2^32
\* bytes or more is its length mod 2^32.)
C2_PayloadsInOrderUpToMaxFrame ==
    \A c \in Readers :
        /\ FramesInCallOrder(c)
        /\ \A i \in 1..Len(rcv[c]) :
              rcv[c][i].res # "ServerDisconnected" =>
                  IF WGt(AsU32(BLen(PayloadOf(c, i))), MAX_FRAME_SIZE)
                  THEN /\ rcv[c][i] = [res |-> "FrameTooLarge",
                                       length |-> AsU32(BLen(PayloadOf(c, i))),
                                       max |-> W(256, 0)]
                       /\ i = Len(rcv[c])
                  ELSE /\ rcv[c][i].res = "Ok"
                       /\ rcv[c][i].buf =
                             BPrefix(PayloadOf(c, i), AsU32(BLen(PayloadOf(c, i))))

\* a peer has received its greeting and the payloads of two consecutive
\* broadcast calls
C2_Witness ==
    \E c \in Readers :
        /\ Len(rcv[c]) = 3
        /\ \A i \in 1..3 : rcv[c][i].res = "Ok" /\ rcv[c][i].buf = PayloadOf(c, i)
        /\ sent[c][1].kind = "greeting"
        /\ sent[c][2].seq = 1
        /\ sent[c][3].seq = 2

\* C4: when broadcast returns, the peer set holds exactly the drained peers
\* whose write succeeded and the peers the accept thread inserted during the
\* broadcast: no peer whose write failed, every peer whose write succeeded,
\* and no peer twice.
C4_PeerSetAfterBroadcast ==
    [][(mpc = "b_reinsert" /\ mpc' = "b_ret") =>
          /\ SeqSet(streams') = bok \cup binserted
          /\ SeqSet(streams') \cap (bdrained \ bok) = {}
          /\ NoDup(streams')]_vars

\* a broadcast has returned with a peer it wrote to and a peer that was
\* inserted meanwhile both in the peer set
C4_Witness ==
    /\ mpc = "b_ret"
    /\ bres = "Ok"
    /\ bok # {}
    /\ binserted # {}
    /\ SeqSet(streams) = bok \cup binserted

\* C5: broadcast returns Ok for every payload of at most 2^32 - 1 bytes,
\* whatever becomes of the writes, and an error only for a longer payload;
\* the call that returns the error writes to no peer and leaves the peer set
\* as it was.
C5_BroadcastResult ==
    /\ [](mpc = "b_ret" =>
            /\ bres \in {"Ok", "Err"}
            /\ bres = "Err" <=> WGt(BLen(bdata), W(65535, 65535)))
    /\ [][(mpc # "b_ret" /\ mpc' = "b_ret" /\ bres' = "Err") =>
             UNCHANGED << streams, sent, sclosed >>]_vars

\* a broadcast of 2^32 - 1 bytes has returned Ok although every write failed
C5_Witness ==
    /\ mpc = "b_ret"
    /\ bres = "Ok"
    /\ BLen(bdata) = W(65535, 65535)
    /\ bdrained # {}
    /\ bok = {}

(***************************************************************************)
(* Properties of the pacer against the accept thread (SpecPacer).          *)
(***************************************************************************)
\* what the client decodes a payload to: a Samples message, the Spec message
\* of the stream
IsSamplesPayload(b) ==
    LET m == deserialize(b) IN m.ok /\ m.msg.type = "Samples"

IsStreamSpecPayload(b) == deserialize(b) = [ok |-> TRUE, msg |-> play.spec]

\* what the server wrote: a payload with the tag of a Samples message, the
\* serialized Spec message of the stream
HasSamplesTag(b) == ~BIsEmpty(b) /\ ByteAt(b, 1) = TagSamples

IsStreamSpecBytes(b) == b = serialize(play.spec, EmptyBytes).buf

\* C3: in every interleaving of the accept thread with the pacer, a
\* connection to which a Samples frame is written has been written the
\* stream's Spec frame before, and a client whose receive returns a Samples
\* frame has had the stream's Spec frame returned by an earlier receive.
\* Frames and results are only ever appended, so it is stated of the last
\* frame written and of the last result returned in every state.
C3_SpecBeforeSamples ==
    \A c \in Clients :
        /\ (sent[c] # << >> /\ HasSamplesTag(sent[c][Len(sent[c])].data)) =>
              \E j \in 1..(Len(sent[c]) - 1) : IsStreamSpecBytes(sent[c][j].data)
        /\ (/\ rcv[c] # << >>
            /\ rcv[c][Len(rcv[c])].res = "Ok"
            /\ IsSamplesPayload(rcv[c][Len(rcv[c])].buf)) =>
              \E j \in 1..(Len(rcv[c]) - 1) :
                  rcv[c][j].res = "Ok" /\ IsStreamSpecPayload(rcv[c][j].buf)

\* a client that attached in mid-stream, after the broadcast of the Spec
\* message, has received the Spec message as greeting and then a group of
\* samples
C3_Witness ==
    \E c \in PacerReaders :
        /\ Len(rcv[c]) = 2
        /\ rcv[c][1].res = "Ok" /\ IsStreamSpecPayload(rcv[c][1].buf)
        /\ rcv[c][2].res = "Ok" /\ IsSamplesPayload(rcv[c][2].buf)
        /\ sent[c][1].kind = "greeting"
        /\ sent[c][2].kind = "broadcast"
        /\ sent[c][2].seq > 1


(***************************************************************************)
(* Properties of the client application (SpecClient).                      *)
(***************************************************************************)
\* the sinks created from the Spec message that was the most recent one
\* when the event ev was recorded
SinksOfEpoch(ev) ==
    {s \in 1..Len(sinks) : ev.epoch > 0 /\ sinks[s].epoch = ev.epoch}

\* C11: in both client loops a Samples message is forwarded to a sink
\* exactly when a sink created from the most recently received Spec is
\* active, and then to that sink; Samples received before any Spec are
\* dropped without an error and without a sink being created.
C11_SamplesForwardedToCurrentSink ==
    \A i \in 1..Len(inbox) :
        inbox[i].type = "Samples" =>
            /\ (inbox[i].to # NoSink) <=> (SinksOfEpoch(inbox[i]) # {})
            /\ inbox[i].to # NoSink => inbox[i].to \in SinksOfEpoch(inbox[i])
            /\ inbox[i].epoch = 0 =>
                  /\ inbox[i].to = NoSink
                  /\ inbox[i].had = NoSink
                  /\ (i = Len(inbox) => loop.exit # "error")

\* C12: when Spec(s) is received while a sink exists, the existing sink is
\* finalized before the new one is created: at most one sink is active at
\* any time, every sink but the newest has been finalized, and no sink
\* receives Samples after a later Spec.
C12_OldSinkFinalizedBeforeNew ==
    /\ Cardinality({s \in 1..Len(sinks) : sinks[s].status = "active"}) <= 1
    /\ \A s \in 1..Len(sinks) : s < Len(sinks) => sinks[s].status = "finalized"
    /\ \A i \in 1..Len(inbox) :
          (inbox[i].type = "Samples" /\ inbox[i].to # NoSink)
              => sinks[inbox[i].to].epoch = inbox[i].epoch

\* C13: when the loop has exited because the server disconnected or the
\* stop flag was set, the sink it held, if any, has been finalized (file
\* mode) or paused (speaker mode).
C13_SinkClosedAtExit ==
    (loop.mode # "none" /\ loop.pc = "done"
        /\ loop.exit \in {"stop", "disconnect"} /\ loop.held # NoSink)
        => sinks[loop.held].status =
               IF loop.mode = "file" THEN "finalized" ELSE "paused"

\* C17: a frame whose declared length N is above 16 MiB is rejected with
\* FrameTooLarge{N, 16 MiB} with the buffer untouched and only the 4 bytes
\* of the prefix read, and the loop returns an error; for N up to 16 MiB
\* receive reads the N payload bytes and returns N, the buffer holding
\* exactly those bytes.
C17_FrameLengthLimit ==
    \A i \in 1..Len(inbox) :
        inbox[i].arrival.kind = "frame" =>
            LET ev == inbox[i]
                N  == ev.arrival.frame.len
            IN  IF WGt(N, WNat(16777216))
                THEN /\ ev.res = [res |-> "FrameTooLarge", length |-> N,
                                  max |-> WNat(16777216)]
                     /\ ev.buffer = EmptyBytes
                     /\ ev.read = WNat(4)
                     /\ i = Len(inbox)
                     /\ loop.pc = "done"
                     /\ loop.ret = "TcpClientError"
                ELSE /\ ev.res.res = "Ok"
                     /\ ev.res.length = N
                     /\ ev.buffer = ev.arrival.frame.data
                     /\ BLen(ev.buffer) = N
                     /\ ev.read = WAdd(WNat(4), N)

\* a frame of exactly 16 MiB has been received, and after it a longer one
\* has been rejected
C17_Witness ==
    /\ Len(inbox) >= 2
    /\ inbox[1].res.res = "Ok"
    /\ inbox[1].res.length = WNat(16777216)
    /\ inbox[2].res.res = "FrameTooLarge"
    /\ loop.ret = "TcpClientError"

(***************************************************************************)
(* Properties of the pacer's stream and pacing (SpecPacing).               *)
(***************************************************************************)
\* the samples of the payload b of a broadcast call: those of a Samples
\* message, none of any other payload
BatchOf(b) ==
    IF HasSamplesTag(b) /\ deserialize(b).ok THEN deserialize(b).msg.samples
    ELSE SampleVec(<< >>)

RECURSIVE BroadcastSamples(_)
\* the batches of the first n broadcast calls, concatenated in call order
BroadcastSamples(n) ==
    IF n = 0 THEN SampleVec(<< >>)
    ELSE VAppend(BroadcastSamples(n - 1), BatchOf(bhist[n]))

\* C14: when play_wav_file has returned Ok (every read succeeded), the
\* batches of the Samples messages it broadcast, concatenated in broadcast
\* order, are the samples of the source.
C14_StreamIsSource ==
    (play.running /\ play.ret = "Ok")
        => BroadcastSamples(Len(bhist)) = play.source

\* the samples broadcast so far, over all Samples messages
SamplesSentSoFar == SLen(BroadcastSamples(Len(bhist)))

\* the step in which play_wav_file takes the Ok of a group broadcast and
\* goes on to the next sample
GroupBroadcastDone ==
    /\ bcont = "group"
    /\ mpc = "b_ret"
    /\ bres = "Ok"
    /\ mpc' = "p_loop"

\* C15: the pacer sleeps after the broadcast of a group if and only if the
\* samples sent so far exceed sample_rate x 3, and it sleeps at no other
\* point.
C15_SleepIffPastWarmUp ==
    [][/\ GroupBroadcastDone =>
            ((play'.sleeps = play.sleeps + 1)
                <=> WGt(SamplesSentSoFar, WMul(play.spec.sample_rate, 3)))
       /\ (play'.sleeps # play.sleeps) =>
            (GroupBroadcastDone /\ play'.sleeps = play.sleeps + 1)]_vars

\* C16: the sleep computed is (SAMPLES_PER_GROUP x 10^6 / sample_rate) x 0.8
\* microseconds cut to an integer, that is, the integer t with
\* t <= 8 x 10^8 / sample_rate < t + 1 for groups of 1000; for 44100 Hz it is
\* within 1 of 18140.
C16_SleepMicros ==
    (play.running /\ play.openable /\ mpc # "p_start") =>
        LET rate == WInt(play.spec.sample_rate)
            t    == play.wait_time
        IN  /\ t * rate <= ((SAMPLES_PER_GROUP * 1000000) \div 5) * 4
            /\ ((SAMPLES_PER_GROUP * 1000000) \div 5) * 4 < (t + 1) * rate
            /\ rate = 44100 => t \in 18139..18141

\* the wait time of a 44100 Hz file has been computed and its samples are
\* being sent
C16_Witness ==
    /\ play.running
    /\ mpc = "p_loop"
    /\ play.spec.sample_rate = WNat(44100)
    /\ play.wait_time = 18140

(***************************************************************************)
(* Properties of the speaker sink (SpecRing).                              *)
(***************************************************************************)
\* C18: play_samples waits while the free space of the ring buffer is
\* smaller than the batch, returns the length of the batch, and drops no
\* sample whatever the callback does: the samples the callback has popped,
\* followed by those in the ring, are the batches handed over, in order.
C18_PlaySamplesPushesWholeBatch ==
    /\ [](/\ producer.pc = "returned" => producer.ret = Len(producer.samples)
          /\ callback.drained \o ring = producer.handed)
    /\ [][(producer.pc = "spin" /\ producer'.pc # "spin")
              => RingCapacity - Len(ring) >= Len(producer.samples)]_vars

\* two calls have returned that together handed over more samples than the
\* ring buffer holds
C18_Witness ==
    /\ producer.pc = "returned"
    /\ producer.calls = 2
    /\ Len(producer.handed) > RingCapacity
    /\ producer.ret = Len(producer.samples)
    /\ callback.runs > 0

\* C19: in every run of the callback on a device with C channels, one sample
\* is taken from the ring buffer per output frame of C slots (the samples at
\* the front of the ring, in order, while it has any) and written, converted,
\* to all C slots of the frame.
C19_OneSamplePerFrame ==
    callback.ran =>
        /\ Len(callback.taken) = callback.frames
        /\ \A f \in 1..callback.frames :
             /\ \A ch \in 1..callback.channels :
                  callback.out[(f - 1) * callback.channels + ch]
                      = FromSample(callback.format, callback.taken[f].s)
             /\ f <= Len(callback.before) =>
                  /\ callback.taken[f].popped
                  /\ callback.taken[f].s = callback.before[f]

(***************************************************************************)
(* Properties of the server's locking (Spec).                              *)
(***************************************************************************)
\* the step in which the accept thread locks the peer set, inserts the new
\* peer and leaves the Ok arm
AcceptLocksPeerSet == apc = "push" /\ apc' = "top"

\* C20: no thread holds the greeting mutex and the peer-set mutex at once:
\* when the accept thread locks the peer set to insert the new peer it has
\* released the greeting mutex.  (The main thread takes one mutex per call
\* and releases it before the call returns.)
C20_LocksNeverHeldTogether ==
    [][AcceptLocksPeerSet => gLock # "accept"]_vars

(***************************************************************************)
(* Shutdown (SpecShutdown).                                                *)
(***************************************************************************)
\* a step of the accept thread taken at the top of its loop with the flag set
AtTopAfterShutdown == apc = "top" /\ shutdown

\* C21: once drop() has set the shutdown flag, the accept thread at the top
\* of its loop accepts nothing more and inserts nothing more: it exits; from
\* wherever it is in the loop it reaches the top and exits, so the join in
\* drop() returns; and after the thread has exited the peer set never
\* changes.
C21_ShutdownStopsAcceptThread ==
    /\ [][AtTopAfterShutdown =>
            /\ apc' \in {"top", "exited"}
            /\ Len(backlog') >= Len(backlog)
            /\ SubSeq(backlog', 1, Len(backlog)) = backlog
            /\ streams' = streams
            /\ sent' = sent]_vars
    /\ [][apc = "exited" => (apc' = "exited" /\ streams' = streams)]_vars
    /\ (shutdown ~> apc = "exited")
    /\ (mpc = "join" ~> mpc = "dropped")

\* drop() came while the accept thread was in its Ok arm with a greeted
\* connection in hand; the thread inserted the peer, exited, and the join
\* returned with another connection still waiting at the listener
C21_Witness ==
    /\ mpc = "dropped"
    /\ apc = "exited"
    /\ Len(streams) = 1
    /\ Len(sent[streams[1]]) = 1
    /\ backlog # << >>

(***************************************************************************)
(* The greeting at accept time (Spec).                                     *)
(***************************************************************************)
\* the peers of the server: those in the peer set and those a broadcast in
\* progress has drained from it and not yet dropped or put back
PeerSetMembers == SeqSet(streams) \cup SeqSet(bclients) \cup SeqSet(bsurv)

\* the connection the accept thread is about to insert
AboutToInsert == IF apc = "push" THEN {astream} ELSE {}

\* the positions of the greetings written whole among the frames of c
GreetingFrames(c) ==
    {i \in 1..Len(sent[c]) : sent[c][i].kind = "greeting" /\ sent[c][i].whole}

\* C22: a peer that is in the peer set, or about to be inserted, was
\* accepted, and if the slot was non-empty when it was accepted the first
\* frame written to it is that slot's content and no other greeting was
\* written; if the slot was empty no greeting was written to it, and nothing
\* at all before its insertion.  A connection accepted with a non-empty slot
\* to which no greeting was written is closed and is no peer.
C22_MembersWereGreeted ==
    /\ \A c \in PeerSetMembers \cup AboutToInsert :
          /\ gAt[c].acc # Unset
          /\ IF BIsEmpty(gAt[c].acc)
             THEN /\ GreetingFrames(c) = {}
                  /\ c \in AboutToInsert => sent[c] = << >>
             ELSE /\ GreetingFrames(c) = {1}
                  /\ sent[c][1] = Frame("greeting", 0, gAt[c].acc)
                  /\ c \in AboutToInsert => Len(sent[c]) = 1
    /\ \A c \in Clients :
          (/\ gAt[c].acc # Unset
           /\ ~BIsEmpty(gAt[c].acc)
           /\ GreetingFrames(c) = {}) =>
             /\ c \notin PeerSetMembers \cup AboutToInsert
             /\ sclosed[c]

\* one connection was greeted and inserted, the write of the greeting to the
\* other failed and it is no peer
C22_Witness ==
    \E c, e \in Clients :
        /\ c \in SeqSet(streams)
        /\ GreetingFrames(c) = {1}
        /\ gAt[e].acc # Unset
        /\ ~BIsEmpty(gAt[e].acc)
        /\ sent[e] = << CutFrame("greeting", 0, gAt[e].acc) >>
        /\ sclosed[e]
        /\ e \notin PeerSetMembers

(***************************************************************************)
(* Frames cut short and lengths that wrap (SpecWire).                      *)
(***************************************************************************)
\* C23: a receive returns Ok only for a frame both of whose writes
\* succeeded, and then with the whole payload that was set as greeting or
\* passed to broadcast; on a frame whose send_frame failed it returns
\* ServerDisconnected.
C23_NoTruncatedPayload ==
    \A c \in Readers :
        \A i \in 1..Len(rcv[c]) :
            /\ rcv[c][i].res = "Ok" =>
                  /\ sent[c][i].whole
                  /\ rcv[c][i].buf = PayloadOf(c, i)
            /\ ~sent[c][i].whole => rcv[c][i].res = "ServerDisconnected"

(***************************************************************************)
(* The greeting slot and the frames of play_wav_file (SpecPacer).          *)
(***************************************************************************)
\* a payload that carries the tag of a Spec message
HasSpecTag(b) == ~BIsEmpty(b) /\ ByteAt(b, 1) = TagSpec

\* the Spec payloads broadcast so far, in call order
SpecBroadcasts == SelectSeq(bhist, HasSpecTag)

\* play_wav_file has been entered and has not returned
PlayRunning == play.running /\ mpc # "p_done"

\* C24 as stated: while play_wav_file runs, a non-empty greeting slot holds
\* the payload of the most recently broadcast Spec message.
C24_SlotIsLastSpecBroadcast ==
    (PlayRunning /\ ~BIsEmpty(new_client_message)) =>
        /\ SpecBroadcasts # << >>
        /\ new_client_message = SpecBroadcasts[Len(SpecBroadcasts)]

\* C24 as amended: while play_wav_file runs, a non-empty greeting slot holds
\* the serialized Spec message of the file being played; that is the most
\* recently broadcast Spec payload once the Spec message has been
\* broadcast, and before that, while play_wav_file waits for a first peer
\* or is about to broadcast, no Spec payload has been broadcast at all.
C24_SlotIsSpecOfStream ==
    (PlayRunning /\ ~BIsEmpty(new_client_message)) =>
        /\ new_client_message = serialize(play.spec, EmptyBytes).buf
        /\ IF SpecBroadcasts = << >>
           THEN mpc \in {"p_wait", "p_spec"}
           ELSE new_client_message = SpecBroadcasts[Len(SpecBroadcasts)]

\* the Spec message and a group of samples have been broadcast and the slot
\* holds the Spec payload
C24_Witness ==
    /\ PlayRunning
    /\ Len(bhist) >= 2
    /\ Len(SpecBroadcasts) = 1
    /\ new_client_message = bhist[1]
    /\ HasSamplesTag(bhist[2])

\* C25: play_wav_file makes its first broadcast only from the point it
\* reaches when get_client_count, called after the greeting was set, has
\* returned a count above 0; the first payload it broadcasts is the
\* serialized Spec message, the very bytes it set as greeting, and every
\* payload broadcast later is a Samples message.
C25_SpecBroadcastFirstAfterClient ==
    /\ [][(mpc # "p_spec" /\ mpc' = "p_spec") =>
             /\ mpc = "p_wait"
             /\ lastSet # Unset
             /\ Len(streams) > 0]_vars
    /\ [][(bhist = << >> /\ bhist' # << >>) => mpc = "p_spec"]_vars
    /\ [](mpc \in {"p_start", "p_wait", "p_spec"} =>
             /\ bhist = << >>
             /\ \A c \in Clients :
                   \A i \in 1..Len(sent[c]) : sent[c][i].kind = "greeting")
    /\ [](bhist # << >> =>
             /\ bhist[1] = lastSet
             /\ bhist[1] = serialize(play.spec, EmptyBytes).buf
             /\ \A i \in 2..Len(bhist) : HasSamplesTag(bhist[i]))

\* the Spec message, a full group and the final group have been broadcast
C25_Witness ==
    /\ Len(bhist) = 3
    /\ bhist[1] = lastSet
    /\ HasSpecTag(bhist[1])
    /\ HasSamplesTag(bhist[2])
    /\ HasSamplesTag(bhist[3])

\* C26: play_wav_file returns Ok only with the peer set empty.
C26_ReturnsOnlyWhenDrained ==
    [][(play.ret # "Ok" /\ play'.ret = "Ok") => streams' = << >>]_vars

\* the number of samples of the Samples message broadcast by call i
GroupSize(i) == SLen(BatchOf(bhist[i]))

\* C27: of the Samples messages broadcast, each but the last holds exactly
\* SAMPLES_PER_GROUP samples and the last holds between 1 and
\* SAMPLES_PER_GROUP; none is empty; every payload broadcast is one
\* serialized message and nothing more, and the serialization buffer is
\* empty whenever a message is about to be serialized.  Payloads are only
\* ever appended to the broadcasts made, one at a time, so it is stated of
\* the last one and of the one before it in every state.
C27_GroupSizes ==
    play.running =>
        /\ Len(bhist) >= 2 =>
              LET b == bhist[Len(bhist)]
                  m == deserialize(b)
              IN  /\ m.ok
                  /\ m.msg.type = "Samples"
                  /\ b = serialize(m.msg, EmptyBytes).buf
                  /\ WLe(WNat(1), SLen(m.msg.samples))
                  /\ WLe(SLen(m.msg.samples), WNat(SAMPLES_PER_GROUP))
        /\ Len(bhist) >= 3 =>
              GroupSize(Len(bhist) - 1) = WNat(SAMPLES_PER_GROUP)
        /\ bhist # << >> => bhist[1] = serialize(play.spec, EmptyBytes).buf
        /\ mpc \in {"p_start", "p_loop"} => play.serialization_buffer = EmptyBytes

\* a full group and then a final group of one sample have been broadcast
C27_Witness ==
    /\ play.running
    /\ play.ret = "Ok"
    /\ Len(bhist) = 3
    /\ GroupSize(2) = WNat(SAMPLES_PER_GROUP)
    /\ GroupSize(3) = WNat(1)

\* play_wav_file has returned the error of the sample iterator
ReadErrorReturned == play.running /\ play.openable /\ play.ret = "WavFileRead"

\* C28: the step in which the iterator yields an error is the return of the
\* source-read error: it broadcasts nothing, writes to no peer, flushes no
\* group and leaves the peer set and the greeting slot as they were; after
\* it play_wav_file broadcasts nothing, writes nothing and sets no greeting.
C28_ReadErrorReturnsAtOnce ==
    /\ [][(~ReadErrorReturned /\ ReadErrorReturned') =>
             /\ mpc = "p_loop"
             /\ mpc' = "p_done"
             /\ play'.sample_group = play.sample_group
             /\ UNCHANGED << bhist, sent, sclosed, streams, new_client_message >>]_vars
    /\ [][ReadErrorReturned =>
             /\ ReadErrorReturned'
             /\ mpc' = "p_done"
             /\ UNCHANGED << bhist, new_client_message, play >>
             /\ \A c \in Clients : Len(sent'[c]) > Len(sent[c]) =>
                   sent'[c][Len(sent'[c])].kind = "greeting"]_vars

\* the iterator failed on the sample after a full group had been
\* accumulated: the Spec message is all that was broadcast, the group in
\* hand was not flushed
C28_Witness ==
    /\ ReadErrorReturned
    /\ Len(bhist) = 1
    /\ GroupFull
    /\ SLen(play.input) # WZero
    /\ streams # << >>

(***************************************************************************)
(* The stop flag and decode errors (SpecClient).                           *)
(***************************************************************************)
\* the calls of receive that returned with the stop flag set
ReceivedAfterStop == {i \in 1..Len(inbox) : inbox[i].stopped}

\* C29: receive is called only after a test of the stop flag that found it
\* clear; once the flag is set, the loop at its top calls receive no more
\* and returns; the only message handled with the flag set is the one of the
\* call that was in flight when it was set, so at most one, the last.
C29_StopCheckedBeforeReceive ==
    /\ [][(loop.pc # "recv" /\ loop'.pc = "recv") =>
             (loop.pc = "top" /\ ~stop)]_vars
    /\ [][inbox' # inbox =>
             (loop.pc = "recv" /\ Len(inbox') = Len(inbox) + 1)]_vars
    /\ [][(stop /\ loop.pc \in {"top", "assign"}) =>
             (inbox' = inbox /\ loop'.pc \in {"top", "done"})]_vars
    /\ [](/\ Cardinality(ReceivedAfterStop) <= 1
          /\ ReceivedAfterStop \subseteq {Len(inbox)})
    /\ [](loop.mode # "none" /\ loop.exit = "stop" => stop)

\* Ctrl-C came while a receive was in flight: its message was handled and
\* the loop then returned at the test of the flag
C29_Witness ==
    /\ loop.mode # "none"
    /\ loop.pc = "done"
    /\ loop.exit = "stop"
    /\ ReceivedAfterStop = {Len(inbox)}
    /\ inbox[Len(inbox)].type = "Samples"

\* the step is the handling of a frame that deserialize rejected
DecodeErrorHandled ==
    /\ Len(inbox') = Len(inbox) + 1
    /\ inbox'[Len(inbox')].type = "Err"

\* C30: the handling of a frame that cannot be decoded creates, finalizes,
\* pauses, drops and writes to no sink, leaves the loop with the sink it had
\* and takes it back to the top, to the next test of the stop flag and the
\* next receive: it does not return.
C30_DecodeErrorSkipsFrame ==
    [][DecodeErrorHandled =>
          /\ sinks' = sinks
          /\ loop'.output = loop.output
          /\ loop'.built = loop.built
          /\ loop'.pc = "top"
          /\ loop'.ret = "none"
          /\ loop'.exit = "none"]_vars

\* a frame that could not be decoded came between a Spec message and a
\* Samples message, which went to the sink made for the Spec message
C30_Witness ==
    /\ Len(inbox) = 3
    /\ inbox[1].type = "Spec"
    /\ inbox[2].type = "Err"
    /\ inbox[3].type = "Samples"
    /\ inbox[3].to # NoSink
    /\ sinks[inbox[3].to].written = 1

(***************************************************************************)
(* The length of a serialized batch against the length prefix (SpecCodec). *)
(***************************************************************************)
\* C31: a Samples message that serialize accepts is serialized into
\* 5 + 2 x count bytes, and that is a length broadcast's check lets through:
\* at most 2^32 - 1.
C31_SerializedBatchFitsPrefix ==
    (cpc = "ser" /\ cin.msg.type = "Samples" /\ cser.ok) =>
        /\ BLen(cser.buf) =
              WAdd(WNat(SAMPLES_HEADER_LEN), WMul(SLen(cin.msg.samples), SAMPLE_SIZE))
        /\ ~TooLongForU32(BLen(cser.buf))

(***************************************************************************)
(* The two mutexes (SpecLocks).                                            *)
(***************************************************************************)
\* C32: whichever way the accept thread and the main thread's calls of
\* set_new_client_message, get_client_count and broadcast interleave, a
\* thread that asks for a mutex gets it: the main thread blocked in lock()
\* is granted the lock, a connection waiting at the listener is taken up
\* (the accept thread gets the greeting mutex), the accept thread holding
\* the greeting mutex gets the peer-set mutex and inserts, and every mutex
\* held is released.
C32_EveryLockGranted ==
    /\ \A w \in WaitsForGreeting \cup WaitsForStreams :
          (mpc = w) ~> (mpc = HeldAfter(w))
    /\ \A c \in Clients :
          (c \in SeqSet(backlog)) ~> (c \notin SeqSet(backlog))
    /\ (apc = "push") ~> (apc = "top")
    /\ (gLock # "free") ~> (gLock = "free")
    /\ (sLock # "free") ~> (sLock = "free")

\* the accept thread holds the greeting mutex and wants the peer-set mutex,
\* which the main thread holds for the drain of a broadcast
C32_Witness ==
    /\ apc = "push"
    /\ gLock = "accept"
    /\ sLock = "main"
    /\ mpc = "drain_held"


(***************************************************************************)
(* Properties of the ring buffer under a fair consumer (SpecRingFair).     *)
(***************************************************************************)
\* C33: with the callback run again and again, every call of play_samples
\* returns, whatever the length of the batch.
C33_PlaySamplesReturns ==
    (producer.pc = "spin") ~> (producer.pc = "returned")

\* a call of play_samples with a batch the ring buffer can hold returns
PlaySamplesReturnsWhenBatchFits ==
    (producer.pc = "spin" /\ Len(producer.samples) <= RingCapacity)
        ~> (producer.pc = "returned")

\* play_samples waits for room for a batch longer than the ring buffer, and
\* the ring buffer is empty
SpinsOnEmptyRing ==
    /\ producer.pc = "spin"
    /\ Len(producer.samples) > RingCapacity
    /\ ring = << >>
    /\ callback.ran


(***************************************************************************)
(* Properties of the callback's side of the ring buffer (SpecRing).        *)
(***************************************************************************)
\* the chunk of the output buffer a slot belongs to
ChunkOfSlot(k) == ((k - 1) \div CHUNK_SLOTS) + 1

\* C34: the callback pops the samples play_samples pushed in the order they
\* were pushed, none lost and none twice; it writes the equilibrium value to
\* a slot only when the ring buffer was empty at the pop for that slot; and
\* it can run whatever play_samples is doing.
C34_CallbackConsumesInOrder ==
    /\ callback.drained \o ring = producer.handed
    /\ callback.ran =>
          /\ \A i \in 1..Len(callback.taken) :
                /\ callback.taken[i].popped <=> i <= Len(callback.before)
                /\ callback.taken[i].popped =>
                      callback.taken[i].s = callback.before[i]
          /\ \A k \in 1..Len(callback.out) :
                callback.out[k] = FromSample(callback.format, EQUILIBRIUM)
                    => ChunkOfSlot(k) > Len(callback.before)
    /\ callback.runs < MaxCallbacks => ENABLED Callback

\* the callback has run while play_samples waited for room, found one sample
\* in the ring buffer and filled the rest of the output with the equilibrium
\* value
C34_Witness ==
    /\ producer.pc = "spin"
    /\ callback.ran
    /\ Len(callback.before) = 1
    /\ Len(callback.taken) > 1
    /\ callback.taken[1].popped
    /\ ~callback.taken[2].popped
    /\ callback.out[Len(callback.out)] = FromSample(callback.format, EQUILIBRIUM)
    /\ callback.runs < MaxCallbacks
=============================================================================
